---- MODULE Spec2Model ----
(***************************************************************************)
(* A model of the sudoku solver of src/internal (sudoku.go, cell.go) and   *)
(* of its candidate bitmask type Moves (src/main.go, package internal).    *)
(*                                                                         *)
(* A grid is the 9x9 array `board` of cells; a cell is a record            *)
(* [value, moves]: value 0 means unset, moves is the candidate set, the    *)
(* set of the bits of the Go bitmask.  A list of cell pointers (the Go     *)
(* type Cells) is a sequence of positions <<row, col>>: the pointer        *)
(* &s.board[row][col] is the position, and the cell's row/col fields are   *)
(* the two components of the position.                                     *)
(***************************************************************************)
EXTENDS Integers, Sequences, FiniteSets, TLC

VARIABLES
    clues,      \* the [9][9]int handed to NewSudoku
    board,      \* Sudoku.board
    pc,         \* where the caller / NewSudoku / Solve stands
    idx,        \* NewSudoku: row-major index of the next clue to look at
    moves,      \* Solve: the local counter `moves`
    depth,      \* Solve: number of recursive re-entries of the running call
    entry,      \* Solve: Measure of the board when the running activation was entered
    err,        \* the error returned by the last finished call ("nil" for none)
    call,       \* the last finished call and its arguments
    plays,      \* number of calls other than Solve and Clone made by the caller so far
    solves,     \* number of Solve calls made by the caller so far
    stack       \* the grids in memory beside `board`: those of the Solve calls that
                \* guessed (src/main.go), innermost last; the rest of memory after Clone

vars == <<clues, board, pc, idx, moves, depth, entry, err, call, plays, solves, stack>>

(***************************************************************************)
(* Bounds of the model.                                                    *)
(***************************************************************************)
\* PlayMove calls the caller makes on one grid
MaxPlays == 1
\* Solve calls the caller makes on one grid
MaxSolves == 2
\* how many of the positions of VariantCells a clue array may be overridden at
MaxVariant == 2

(***************************************************************************)
(* Moves: the candidate bitmask (src/main.go, package internal).           *)
(***************************************************************************)
N == 9
Values == 1..N
empty == {}
full == Values

\* what a call gives that ends in a Go panic, by panic site: mask, and the
\* guard of Cell.EliminateMove; an index outside an array
PanicMask == "panic: value out of range"
PanicEliminate == "panic: Value out of range"
PanicIndex == "panic: index out of range"

\* the test `value < 1 || value > 9` of mask, Cell.Set and Cell.EliminateMove
OutOfRange(value) == value < 1 \/ value > 9

\* mask: the bit of a value, as the set of the one value
mask(value) == IF OutOfRange(value) THEN PanicMask ELSE {value}

Contains(m, value) == IF OutOfRange(value) THEN mask(value) ELSE m \cap mask(value) # {}

\* a faulty Remove, which sets the bit as Add does
RemoveSetsBit(m, value) == m \cup {value}

\* Moves.Remove: the mask after the call
Remove(m, value) == IF OutOfRange(value) THEN Contains(m, value) ELSE m \ mask(value)

\* Moves.Slice: the values 1..9 in ascending order that the mask contains
Slice(m) == SelectSeq([i \in 1..N |-> i], LAMBDA v : Contains(m, v))

(***************************************************************************)
(* Cell (cell.go).                                                         *)
(***************************************************************************)
\* Cell.Set: the error it returns, by fmt.Errorf site, "nil" for none
CellSetError(cell, value) ==
    IF OutOfRange(value) THEN "CellValueOutOfRange"
    ELSE IF cell.value # 0 THEN "CellAlreadySet"
    ELSE "nil"

\* a faulty Set, which leaves the candidates of the cell
CellSetKeepsMoves(cell, value) ==
    IF CellSetError(cell, value) # "nil" THEN cell
    ELSE [cell EXCEPT !.value = value]

\* Cell.Set: the cell after the call, left as it was when an error is returned
CellSet(cell, value) ==
    IF CellSetError(cell, value) # "nil" THEN cell
    ELSE [cell EXCEPT !.value = value, !.moves = empty]

CanPlay(cell, value) == Contains(cell.moves, value)

\* a faulty Cell.EliminateMove, which removes nothing
CellEliminateNothing(cell, value) == cell

\* Cell.EliminateMove: the cell after the call
CellEliminateMove(cell, value) ==
    IF OutOfRange(value) THEN PanicEliminate
    ELSE [cell EXCEPT !.moves = Remove(@, value)]

(***************************************************************************)
(* Cells: lists of cell pointers (cell.go).  Every operator that reads a   *)
(* cell takes the board b the pointers point into.                         *)
(***************************************************************************)
Pos == (0..(N-1)) \X (0..(N-1))

\* a faulty FindMove, which takes the cells that can hold nothing but the value
FindMoveOnly(b, c, value) == SelectSeq(c, LAMBDA p : b[p].moves = {value})

\* the panic of CanPlay at the first cell ends the loop
FindMove(b, c, value) ==
    IF Len(c) > 0 /\ OutOfRange(value) THEN CanPlay(b[c[1]], value)
    ELSE SelectSeq(c, LAMBDA p : CanPlay(b[p], value))

UnsetOnly(b, c) == SelectSeq(c, LAMBDA p : b[p].value = 0)

\* a faulty Excluding, which excludes nothing
ExcludingNone(c, other) == c

Excluding(c, other) ==
    SelectSeq(c, LAMBDA p : ~ \E i \in DOMAIN other :
                                  p[1] = other[i][1] /\ p[2] = other[i][2])

RECURSIVE PowerSet(_)
PowerSet(c) ==
    IF Len(c) = 0 THEN << <<>> >>
    ELSE LET subsets == PowerSet(Tail(c))
             head == <<Head(c)>>
         IN  subsets \o [i \in 1..Len(subsets) |-> head \o subsets[i]]

\* a faulty RemainingMoves, which starts from full instead of empty
RemainingMovesFromFull(b, c) == full \cup UNION {b[c[i]].moves : i \in DOMAIN c}

RemainingMoves(b, c) == UNION {b[c[i]].moves : i \in DOMAIN c}

\* Cells.EliminateMove: the board after the loop over cells i.. of c; the
\* panic of Cell.EliminateMove ends the loop
RECURSIVE EliminateFrom(_, _, _, _)
EliminateFrom(b, c, value, i) ==
    IF i > Len(c) THEN b
    ELSE IF OutOfRange(value) THEN CellEliminateMove(b[c[i]], value)
    ELSE EliminateFrom([b EXCEPT ![c[i]] = CellEliminateMove(@, value)], c, value, i + 1)

EliminateMove(b, c, value) == EliminateFrom(b, c, value, 1)

\* Cells.EliminateMove: its result, the number of cells whose candidate was removed
Changes(b, c, value) ==
    IF Len(c) > 0 /\ OutOfRange(value) THEN CellEliminateMove(b[c[1]], value)
    ELSE Cardinality({c[i] : i \in {j \in DOMAIN c : CanPlay(b[c[j]], value)}})

\* the distinct members of a list of ints, ascending
Ascending(S) == SelectSeq([i \in 1..N |-> i - 1], LAMBDA x : x \in S)

UniqueRows(c) == Ascending({c[i][1] : i \in DOMAIN c})

UniqueCols(c) == Ascending({c[i][2] : i \in DOMAIN c})

\* a faulty uniqueSquares, which takes the place in the box for the box
uniqueSquaresInBox(values) == Ascending({values[i] % 3 : i \in DOMAIN values})

uniqueSquares(values) == Ascending({values[i] \div 3 : i \in DOMAIN values})

(***************************************************************************)
(* Sudoku: the group views (sudoku.go).                                    *)
(***************************************************************************)
\* the two loops of Range run over top..bottom and left..right, no time when
\* an interval is empty; a cell outside s.board is an index out of range
Range(top, left, bottom, right) ==
    LET w == IF left <= right THEN right - left + 1 ELSE 0
        h == IF top <= bottom THEN bottom - top + 1 ELSE 0
        cells == [k \in 1..(h * w) |-> <<top + ((k - 1) \div w), left + ((k - 1) % w)>>]
    IN  IF \E k \in 1..(h * w) : cells[k] \notin Pos THEN PanicIndex ELSE cells

\* a faulty order of the cells, column by column
CellsByColumn == [k \in 1..81 |-> <<(k - 1) % 9, (k - 1) \div 9>>]

Cells == Range(0, 0, 8, 8)

\* the views of the nine rows, columns and boxes, built once
RowCells == [row \in 0..8 |-> Range(row, 0, row, 8)]

ColCells == [col \in 0..8 |-> Range(0, col, 8, col)]

SquareCells ==
    [row \in 0..2 |-> [col \in 0..2 |-> Range(row * 3, col * 3, row * 3 + 2, col * 3 + 2)]]

Row(row) == RowCells[row]

Col(col) == ColCells[col]

Square(row, col) == SquareCells[row][col]

Rows == [i \in 1..9 |-> Row(i - 1)]

Cols == [i \in 1..9 |-> Col(i - 1)]

Squares == [i \in 1..9 |-> Square((i - 1) \div 3, (i - 1) % 3)]

Groups == (Rows \o Cols) \o Squares

(***************************************************************************)
(* Sudoku.PlayMove.  The Go errors are message strings; the model keeps    *)
(* one name per fmt.Errorf site.  The result is the board after the call   *)
(* and the error returned ("nil" for none).                                *)
(***************************************************************************)
\* a faulty order of the checks: the cell's value is looked at after the groups
PlayMoveChecksCellLate(b, row, col, value) ==
    IF row < 0 \/ row >= 9 THEN "RowOutOfBounds"
    ELSE IF col < 0 \/ col >= 9 THEN "ColOutOfBounds"
    ELSE IF value < 1 \/ value > 9 THEN "ValueOutOfBounds"
    ELSE IF ~ Contains(RemainingMoves(b, Row(row)), value) THEN "RowContains"
    ELSE IF ~ Contains(RemainingMoves(b, Col(col)), value) THEN "ColContains"
    ELSE IF ~ Contains(RemainingMoves(b, Square(row \div 3, col \div 3)), value)
         THEN "SquareContains"
    ELSE IF b[<<row, col>>].value # 0 THEN "AlreadyContains"
    ELSE IF ~ CanPlay(b[<<row, col>>], value) THEN "NotValidSpot"
    ELSE "nil"

\* faulty checks without the check of the box
PlayMoveChecksNoSquare(b, row, col, value) ==
    IF row < 0 \/ row >= 9 THEN "RowOutOfBounds"
    ELSE IF col < 0 \/ col >= 9 THEN "ColOutOfBounds"
    ELSE IF value < 1 \/ value > 9 THEN "ValueOutOfBounds"
    ELSE IF b[<<row, col>>].value # 0 THEN "AlreadyContains"
    ELSE IF ~ Contains(RemainingMoves(b, Row(row)), value) THEN "RowContains"
    ELSE IF ~ Contains(RemainingMoves(b, Col(col)), value) THEN "ColContains"
    ELSE IF ~ CanPlay(b[<<row, col>>], value) THEN "NotValidSpot"
    ELSE "nil"

\* faulty checks, which refuse the cell that can take the value
PlayMoveChecksCellInverted(b, row, col, value) ==
    IF row < 0 \/ row >= 9 THEN "RowOutOfBounds"
    ELSE IF col < 0 \/ col >= 9 THEN "ColOutOfBounds"
    ELSE IF value < 1 \/ value > 9 THEN "ValueOutOfBounds"
    ELSE IF b[<<row, col>>].value # 0 THEN "AlreadyContains"
    ELSE IF ~ Contains(RemainingMoves(b, Row(row)), value) THEN "RowContains"
    ELSE IF ~ Contains(RemainingMoves(b, Col(col)), value) THEN "ColContains"
    ELSE IF ~ Contains(RemainingMoves(b, Square(row \div 3, col \div 3)), value)
         THEN "SquareContains"
    ELSE IF CanPlay(b[<<row, col>>], value) THEN "NotValidSpot"
    ELSE "nil"

\* the three range checks, the check of the cell and the three group checks and
\* the check of the cell's own candidates, in the order of the code: the name of
\* the first one that fails, "nil" if none does
PlayMoveChecks(b, row, col, value) ==
    IF row < 0 \/ row >= 9 THEN "RowOutOfBounds"
    ELSE IF col < 0 \/ col >= 9 THEN "ColOutOfBounds"
    ELSE IF value < 1 \/ value > 9 THEN "ValueOutOfBounds"
    ELSE IF b[<<row, col>>].value # 0 THEN "AlreadyContains"
    ELSE IF ~ Contains(RemainingMoves(b, Row(row)), value) THEN "RowContains"
    ELSE IF ~ Contains(RemainingMoves(b, Col(col)), value) THEN "ColContains"
    ELSE IF ~ Contains(RemainingMoves(b, Square(row \div 3, col \div 3)), value)
         THEN "SquareContains"
    ELSE IF ~ CanPlay(b[<<row, col>>], value) THEN "NotValidSpot"
    ELSE "nil"

\* a faulty closing scan, which does not skip the cells that are set
NoMovesLeftAnyCell(b) == \E p \in Pos : b[p].moves = empty

\* the closing scan of PlayMove: an unset cell without candidates
NoMovesLeft(b) == \E p \in Pos : b[p].value = 0 /\ b[p].moves = empty

\* a faulty PlayMove, which sets the cell before its checks of the groups and
\* of the cell's candidates
PlayMoveSetsEarly(b, row, col, value) ==
    LET failed == PlayMoveChecks(b, row, col, value)
        b1 == [b EXCEPT ![<<row, col>>] = CellSet(@, value)]
    IN  IF failed \in {"RowOutOfBounds", "ColOutOfBounds", "ValueOutOfBounds", "AlreadyContains"}
        THEN [board |-> b, err |-> failed]
        ELSE IF failed # "nil" THEN [board |-> b1, err |-> failed]
        ELSE LET b2 == EliminateMove(b1, Row(row), value)
                 b3 == EliminateMove(b2, Col(col), value)
                 b4 == EliminateMove(b3, Square(row \div 3, col \div 3), value)
             IN  [board |-> b4,
                  err |-> IF NoMovesLeft(b4) THEN "NoMovesLeft" ELSE "nil"]

PlayMove(b, row, col, value) ==
    LET failed == PlayMoveChecks(b, row, col, value)
    IN  IF failed # "nil" THEN [board |-> b, err |-> failed]
        ELSE IF CellSetError(b[<<row, col>>], value) # "nil"
        THEN [board |-> b, err |-> CellSetError(b[<<row, col>>], value)]
        ELSE LET b1 == [b EXCEPT ![<<row, col>>] = CellSet(@, value)]
                 b2 == EliminateMove(b1, Row(row), value)
                 b3 == EliminateMove(b2, Col(col), value)
                 b4 == EliminateMove(b3, Square(row \div 3, col \div 3), value)
             IN  [board |-> b4,
                  err |-> IF NoMovesLeft(b4) THEN "NoMovesLeft" ELSE "nil"]

\* the error kinds of the specification, by fmt.Errorf site
Kinds ==
    [e \in {"RowOutOfBounds", "ColOutOfBounds", "ValueOutOfBounds", "AlreadyContains",
            "RowContains", "ColContains", "SquareContains", "NotValidSpot",
            "NoMovesLeft", "NoSolution", "nil"} |->
        CASE e \in {"RowOutOfBounds", "ColOutOfBounds", "ValueOutOfBounds"} -> "OutOfBounds"
          [] e = "AlreadyContains" -> "AlreadyAssigned"
          [] e \in {"RowContains", "ColContains", "SquareContains"} -> "GroupConflict"
          [] e = "NotValidSpot" -> "IllegalMove"
          [] e = "NoMovesLeft" -> "Contradiction"
          [] e = "NoSolution" -> "NoSolution"
          [] OTHER -> "nil"]

Kind(e) == Kinds[e]

(***************************************************************************)
(* NewSudoku.                                                              *)
(***************************************************************************)
\* the board after the first loop of NewSudoku
Blank == [p \in Pos |-> [value |-> 0, moves |-> full]]

\* row-major position of the clue with index i (0..80)
ClueAt(i) == <<i \div 9, i % 9>>

\* the index of the first non-zero clue at or after i, 81 if there is none
NextClue(cl, i) ==
    LET found == {j \in i..80 : cl[ClueAt(j)] # 0}
    IN  IF found = {} THEN 81 ELSE CHOOSE j \in found : \A k \in found : j <= k

(***************************************************************************)
(* Sudoku.Solve, one operator per loop of the function.  A loop works on   *)
(* st = [board, moves, err]: the board, the local counter `moves`, and the *)
(* error a PlayMove returned (the loop stops there and Solve returns it).  *)
(* Every loop carries the same test of st.err; in the loops that call no   *)
(* PlayMove err stays "nil" and the test never stops them.                 *)
(***************************************************************************)
Played(st, r) ==
    [board |-> r.board,
     moves |-> IF r.err = "nil" THEN st.moves + 1 ELSE st.moves,
     err   |-> r.err]

\* "Cells where only a single move is possible": cells i..hi of s.Cells()
RECURSIVE NakedCells(_, _, _)
NakedCells(st, i, hi) ==
    IF i > hi \/ st.err # "nil" THEN st
    ELSE LET cell == Cells[i]
             possibleMoves == Slice(st.board[cell].moves)
         IN  IF Len(possibleMoves) = 1
             THEN NakedCells(Played(st, PlayMove(st.board, cell[1], cell[2],
                                                 possibleMoves[1])), i + 1, hi)
             ELSE NakedCells(st, i + 1, hi)

\* the loop over s.Cells() from cell i on, taken N cells at a time
RECURSIVE NakedSingles(_, _)
NakedSingles(st, i) ==
    IF i > Len(Cells) \/ st.err # "nil" THEN st
    ELSE LET hi == IF i + N - 1 < Len(Cells) THEN i + N - 1 ELSE Len(Cells)
         IN  NakedSingles(NakedCells(st, i, hi), hi + 1)

\* one group of a hidden-single loop: values k.. of the slice taken when the
\* group's iteration began
RECURSIVE HiddenValues(_, _, _, _)
HiddenValues(st, group, values, k) ==
    IF k > Len(values) \/ st.err # "nil" THEN st
    ELSE LET cells == FindMove(st.board, group, values[k])
         IN  IF Len(cells) = 1
             THEN HiddenValues(Played(st, PlayMove(st.board, cells[1][1], cells[1][2],
                                                   values[k])), group, values, k + 1)
             ELSE HiddenValues(st, group, values, k + 1)

\* "Squares / Rows / Columns where a number only fits in one cell"
RECURSIVE HiddenSingles(_, _, _)
HiddenSingles(st, groups, i) ==
    IF i > Len(groups) \/ st.err # "nil" THEN st
    ELSE HiddenSingles(
             HiddenValues(st, groups[i],
                          Slice(RemainingMoves(st.board, groups[i])), 1),
             groups, i + 1)

\* `if cells.EliminateMove(value) > 0 { moves++ }`
\* a faulty count, which counts an elimination that changed no cell
EliminatedAlwaysCounts(st, cells, value) ==
    [board |-> EliminateMove(st.board, cells, value),
     moves |-> st.moves + 1,
     err   |-> st.err]

Eliminated(st, cells, value) ==
    [board |-> EliminateMove(st.board, cells, value),
     moves |-> IF Changes(st.board, cells, value) > 0 THEN st.moves + 1 ELSE st.moves,
     err   |-> st.err]

\* a faulty BoxValue, which takes the first row and the first column of the
\* cells that can hold the value without asking whether they are the only ones
BoxValueFirstLine(st, square, value) ==
    LET cells == FindMove(st.board, square, value)
        rows == UniqueRows(cells)
        st1 == IF Len(rows) >= 1
               THEN Eliminated(st, Excluding(Row(rows[1]), square), value)
               ELSE st
        cols == UniqueCols(cells)
    IN  IF Len(cols) >= 1
        THEN Eliminated(st1, Excluding(Col(cols[1]), square), value)
        ELSE st1

\* one value of the box loop: the row part, then the column part
BoxValue(st, square, value) ==
    LET cells == FindMove(st.board, square, value)
        rows == UniqueRows(cells)
        st1 == IF Len(rows) = 1
               THEN Eliminated(st, Excluding(Row(rows[1]), square), value)
               ELSE st
        cols == UniqueCols(cells)
    IN  IF Len(cols) = 1
        THEN Eliminated(st1, Excluding(Col(cols[1]), square), value)
        ELSE st1

RECURSIVE BoxValues(_, _, _, _)
BoxValues(st, square, values, k) ==
    IF k > Len(values) \/ st.err # "nil" THEN st
    ELSE BoxValues(BoxValue(st, square, values[k]), square, values, k + 1)

\* "If a number can only be in one row/col in a square ..."
RECURSIVE BoxElimination(_, _)
BoxElimination(st, i) ==
    IF i > Len(Squares) \/ st.err # "nil" THEN st
    ELSE BoxElimination(
             BoxValues(st, Squares[i],
                       Slice(RemainingMoves(st.board, Squares[i])), 1),
             i + 1)

\* one value of the row loop
RowValue(st, row, value) ==
    LET cells == FindMove(st.board, row, value)
        cols == UniqueCols(cells)
        squareCols == uniqueSquares(cols)
    IN  IF Len(squareCols) = 1
        THEN LET squareRow == row[1][1] \div 3
                 squareCol == squareCols[1]
             IN  Eliminated(st, Excluding(Square(squareRow, squareCol), row), value)
        ELSE st

\* one value of the column loop
ColValue(st, col, value) ==
    LET cells == FindMove(st.board, col, value)
        rows == UniqueRows(cells)
        squareRows == uniqueSquares(rows)
    IN  IF Len(squareRows) = 1
        THEN LET squareRow == squareRows[1]
                 squareCol == col[1][2] \div 3
             IN  Eliminated(st, Excluding(Square(squareRow, squareCol), col), value)
        ELSE st

RECURSIVE RowValues(_, _, _, _)
RowValues(st, row, values, k) ==
    IF k > Len(values) \/ st.err # "nil" THEN st
    ELSE RowValues(RowValue(st, row, values[k]), row, values, k + 1)

RECURSIVE ColValues(_, _, _, _)
ColValues(st, col, values, k) ==
    IF k > Len(values) \/ st.err # "nil" THEN st
    ELSE ColValues(ColValue(st, col, values[k]), col, values, k + 1)

\* "If a number can only be played in a single square on a row ..."
RECURSIVE RowElimination(_, _)
RowElimination(st, i) ==
    IF i > Len(Rows) \/ st.err # "nil" THEN st
    ELSE RowElimination(
             RowValues(st, Rows[i], Slice(RemainingMoves(st.board, Rows[i])), 1),
             i + 1)

\* "If a number can only be played in a single square in a column ..."
RECURSIVE ColElimination(_, _)
ColElimination(st, i) ==
    IF i > Len(Cols) \/ st.err # "nil" THEN st
    ELSE ColElimination(
             ColValues(st, Cols[i], Slice(RemainingMoves(st.board, Cols[i])), 1),
             i + 1)

\* the inner loop over remainingMoves of one subset
RECURSIVE SubsetValues(_, _, _, _)
SubsetValues(st, otherCells, remainingMoves, k) ==
    IF k > Len(remainingMoves) \/ st.err # "nil" THEN st
    ELSE LET value == remainingMoves[k]
             excludable == FindMove(st.board, otherCells, value)
         IN  SubsetValues(
                 IF Len(excludable) > 0
                 THEN [board |-> EliminateMove(st.board, excludable, value),
                       moves |-> st.moves + 1,
                       err   |-> st.err]
                 ELSE st,
                 otherCells, remainingMoves, k + 1)

\* a faulty Subset, which removes the values from the subset's own cells too
SubsetFromGroup(st, group, subset) ==
    IF Len(subset) < 2 \/ Len(subset) = Len(group) THEN st
    ELSE LET union == RemainingMoves(st.board, subset)
         IN  IF Len(subset) = Cardinality(union)
             THEN SubsetValues(st, group, Slice(union), 1)
             ELSE st

\* one subset of the power set of a group's unset cells; len(remainingMoves),
\* the length of the slice, is the number of values in the union
Subset(st, group, subset) ==
    IF Len(subset) < 2 \/ Len(subset) = Len(group) THEN st
    ELSE LET union == RemainingMoves(st.board, subset)
         IN  IF Len(subset) = Cardinality(union)
             THEN SubsetValues(st, Excluding(group, subset), Slice(union), 1)
             ELSE st

\* the loop over the power set, subsets lo..hi in order (the range is halved
\* so that the evaluation stays shallow; the order of the subsets is kept)
RECURSIVE Subsets(_, _, _, _, _)
Subsets(st, group, sets, lo, hi) ==
    IF lo > hi \/ st.err # "nil" THEN st
    ELSE IF lo = hi THEN Subset(st, group, sets[lo])
    ELSE LET mid == (lo + hi) \div 2
         IN  Subsets(Subsets(st, group, sets, lo, mid), group, sets, mid + 1, hi)

\* "If a group of numbers": the loop over s.Groups()
RECURSIVE SubsetExclusion(_, _)
SubsetExclusion(st, i) ==
    IF i > Len(Groups) \/ st.err # "nil" THEN st
    ELSE LET group == UnsetOnly(st.board, Groups[i])
         IN  LET sets == PowerSet(group)
             IN  SubsetExclusion(Subsets(st, group, sets, 1, Len(sets)), i + 1)

\* len(s.Cells().UnsetOnly()) == 0
\* a faulty test of the solved grid, with the comparison inverted
CompleteInverted(b) == Len(UnsetOnly(b, Cells)) # 0

Complete(b) == Len(UnsetOnly(b, Cells)) = 0

(***************************************************************************)
(* The clue arrays of the model: the empty grid, and the puzzles below,    *)
(* each as it is and with one clue overridden (set, changed or blanked).   *)
(***************************************************************************)
\* the puzzle of src/main.go
PuzzleA ==
    << <<0,0,0, 5,0,0, 0,9,0>>,
       <<0,0,0, 0,7,9, 0,0,0>>,
       <<8,0,0, 2,0,4, 5,0,0>>,
       <<0,0,3, 0,0,8, 4,5,0>>,
       <<0,0,2, 0,9,0, 3,0,0>>,
       <<0,5,7, 3,0,0, 6,0,0>>,
       <<0,0,8, 6,0,2, 0,0,1>>,
       <<0,0,0, 8,1,0, 0,0,0>>,
       <<0,6,0, 0,0,3, 0,0,0>> >>

\* row 0 leaves 9 alone to cell (0,8), the 9 of row 1 takes it away; further
\* down, the first box of the middle band holds 1 twice
PuzzleC ==
    << <<1,2,3, 4,5,6, 7,8,0>>,
       <<0,0,0, 0,0,0, 0,9,0>>,
       <<0,0,0, 0,0,0, 0,0,0>>,
       <<0,1,0, 0,0,0, 0,0,0>>,
       <<0,0,1, 0,0,0, 0,0,0>>,
       <<0,0,0, 0,0,0, 0,0,0>>,
       <<0,0,0, 0,0,0, 0,0,0>>,
       <<0,0,0, 0,0,0, 0,0,0>>,
       <<0,0,0, 0,0,0, 0,0,0>> >>

\* no clue at all
PuzzleE == [i \in 1..N |-> [j \in 1..N |-> 0]]

\* the puzzles a clue is overridden in
Puzzles == <<PuzzleA, PuzzleC>>

\* the cells a clue may be overridden at
VariantCells == << <<4, 4>>, <<8, 1>>, <<0, 0>>, <<1, 5>> >>

ClueValues == 0..N

\* puzzle P with the clue at cell number k of VariantCells replaced by v (k = 0: as is)
Variant(P, k, v) ==
    [p \in Pos |-> IF k > 0 /\ p = VariantCells[k] THEN v ELSE P[p[1] + 1][p[2] + 1]]

ClueArrays ==
    {Variant(PuzzleE, 0, 0)} \cup
    {Variant(Puzzles[i], k, v) :
        i \in DOMAIN Puzzles,
        k \in {j \in 0..MaxVariant : j <= Len(VariantCells)},
        v \in ClueValues}

\* what the caller passes to PlayMove
PlayRows == {1, 9}
PlayCols == {-1, 1}
PlayValues == {2, 10}

(***************************************************************************)
(* The state machine.                                                      *)
(***************************************************************************)
\* unset cells plus remaining candidates
Measure(b) ==
    Cardinality({p \in Pos : b[p].value = 0})
        + Cardinality({pv \in Pos \X Values : pv[2] \in b[pv[1]].moves})

NoCall == [op |-> "none", row |-> 0, col |-> 0, value |-> 0]
PlayCall(row, col, value) == [op |-> "PlayMove", row |-> row, col |-> col, value |-> value]
SolveCall == [op |-> "Solve", row |-> 0, col |-> 0, value |-> 0]

Init ==
    /\ clues \in ClueArrays
    /\ board = Blank
    /\ pc = "NewSudoku"
    /\ idx = 0
    /\ moves = 0
    /\ depth = 0
    /\ entry = 0
    /\ err = "nil"
    /\ call = NoCall
    /\ plays = 0
    /\ solves = 0
    /\ stack = <<>>

\* NewSudoku: one iteration of the second loop that finds a clue, and its PlayMove
NewSudokuClue ==
    /\ pc = "NewSudoku"
    /\ NextClue(clues, idx) < 81
    /\ LET i == NextClue(clues, idx)
           cell == ClueAt(i)
           r == PlayMove(board, cell[1], cell[2], clues[cell])
       IN  /\ board' = r.board
           /\ err' = r.err
           /\ call' = PlayCall(cell[1], cell[2], clues[cell])
           /\ idx' = i + 1
           /\ pc' = IF r.err = "nil" THEN "NewSudoku" ELSE "idle"
    /\ UNCHANGED <<clues, moves, depth, entry, plays, solves, stack>>

\* NewSudoku: no clue is left, return s, nil
NewSudokuDone ==
    /\ pc = "NewSudoku"
    /\ NextClue(clues, idx) = 81
    /\ pc' = "idle"
    /\ idx' = 81
    /\ err' = "nil"
    /\ call' = NoCall
    /\ UNCHANGED <<clues, board, moves, depth, entry, plays, solves, stack>>

\* the caller calls PlayMove on the grid it holds
CallPlayMove ==
    /\ pc = "idle"
    /\ plays < MaxPlays
    /\ \E row \in PlayRows, col \in PlayCols, value \in PlayValues :
          LET r == PlayMove(board, row, col, value)
          IN  /\ board' = r.board
              /\ err' = r.err
              /\ call' = PlayCall(row, col, value)
    /\ plays' = plays + 1
    /\ UNCHANGED <<clues, pc, idx, moves, depth, entry, solves, stack>>

\* the caller calls Solve
CallSolve ==
    /\ pc = "idle"
    /\ solves < MaxSolves
    /\ solves' = solves + 1
    /\ pc' = "naked"
    /\ moves' = 0
    /\ depth' = 0
    /\ entry' = Measure(board)
    /\ err' = "nil"
    /\ call' = SolveCall
    /\ UNCHANGED <<clues, board, idx, plays, stack>>

\* a loop of Solve with PlayMove calls: on an error Solve returns it
SolveLoop(from, to, st) ==
    /\ pc = from
    /\ board' = st.board
    /\ IF st.err = "nil"
       THEN /\ pc' = to
            /\ moves' = st.moves
            /\ UNCHANGED <<depth, entry, err, call>>
       ELSE /\ pc' = "idle"
            /\ moves' = 0
            /\ depth' = 0
            /\ entry' = 0
            /\ err' = st.err
            /\ call' = SolveCall
    /\ UNCHANGED <<clues, idx, plays, solves, stack>>

Here == [board |-> board, moves |-> moves, err |-> "nil"]

SolveNaked == SolveLoop("naked", "hiddenSquares", NakedSingles(Here, 1))

SolveHiddenSquares == SolveLoop("hiddenSquares", "hiddenRows", HiddenSingles(Here, Squares, 1))

SolveHiddenRows == SolveLoop("hiddenRows", "hiddenCols", HiddenSingles(Here, Rows, 1))

SolveHiddenCols == SolveLoop("hiddenCols", "boxes", HiddenSingles(Here, Cols, 1))

SolveBoxes == SolveLoop("boxes", "rows", BoxElimination(Here, 1))

SolveRows == SolveLoop("rows", "cols", RowElimination(Here, 1))

SolveCols == SolveLoop("cols", "check", ColElimination(Here, 1))

\* Solve returns e
SolveReturn(e) ==
    /\ pc' = "idle"
    /\ moves' = 0
    /\ depth' = 0
    /\ entry' = 0
    /\ err' = e
    /\ call' = SolveCall
    /\ UNCHANGED <<clues, board, idx, plays, solves, stack>>

\* return s.Solve()
SolveAgain ==
    /\ pc' = "naked"
    /\ moves' = 0
    /\ depth' = depth + 1
    /\ entry' = Measure(board)
    /\ UNCHANGED <<clues, board, idx, err, call, plays, solves, stack>>

\* if len(s.Cells().UnsetOnly()) == 0 { return nil }
SolveSolved ==
    /\ pc = "check"
    /\ Complete(board)
    /\ SolveReturn("nil")

\* if moves > 0 { return s.Solve() }, after the first seven loops
SolveRepeat ==
    /\ pc = "check"
    /\ ~ Complete(board)
    /\ moves > 0
    /\ SolveAgain

\* a faulty step, which goes on to the subset loop whether or not a loop has
\* changed the grid
SolveStuckOrNot ==
    /\ pc = "check"
    /\ ~ Complete(board)
    /\ pc' = "subsets"
    /\ UNCHANGED <<clues, board, idx, moves, depth, entry, err, call, plays, solves, stack>>

\* neither: go on to the subset loop
SolveStuck ==
    /\ pc = "check"
    /\ ~ Complete(board)
    /\ moves = 0
    /\ pc' = "subsets"
    /\ UNCHANGED <<clues, board, idx, moves, depth, entry, err, call, plays, solves, stack>>

SolveSubsets == SolveLoop("subsets", "recheck", SubsetExclusion(Here, 1))

\* if moves > 0 { return s.Solve() }, after the subset loop
SolveRepeatSubsets ==
    /\ pc = "recheck"
    /\ moves > 0
    /\ SolveAgain

\* return errors.New("No solution found")
SolveNoSolution ==
    /\ pc = "recheck"
    /\ moves = 0
    /\ SolveReturn("NoSolution")

Next ==
    \/ NewSudokuClue
    \/ NewSudokuDone
    \/ CallPlayMove
    \/ CallSolve
    \/ SolveNaked
    \/ SolveHiddenSquares
    \/ SolveHiddenRows
    \/ SolveHiddenCols
    \/ SolveBoxes
    \/ SolveRows
    \/ SolveCols
    \/ SolveSolved
    \/ SolveRepeat
    \/ SolveStuck
    \/ SolveSubsets
    \/ SolveRepeatSubsets
    \/ SolveNoSolution

Spec == Init /\ [][Next]_vars

(***************************************************************************)
(* The second program of src/main.go (lines 403-920): the version of the   *)
(* solver whose Solve guesses on a clone when its loops stall.  Its grid   *)
(* keeps the values in `board` and the candidates in `moves`, a cell of    *)
(* the model holds both; its flags rows/cols/squares[..][value] are true   *)
(* until PlayMove puts the value in the group, so they are read off the    *)
(* values of the group.  A range of cells (top, left, bottom, right) is    *)
(* the list Range gives, and findMoves and eliminateMoves are FindMove and *)
(* EliminateMove on that list.                                             *)
(***************************************************************************)
\* s.moves[row][col][value] on a cell: value is an index of the Set [10]bool,
\* 0..9, and the index 0 is never true
Move(cell, value) == IF value \in 0..9 THEN value \in cell.moves ELSE PanicIndex

\* Set.slice: the indices 0..9 that are true, ascending
slice(m) == SelectSeq([i \in 1..10 |-> i - 1], LAMBDA v : v \in m)

\* Sudoku.eliminateMove: the cell after the call
eliminateMove(cell, value) ==
    IF value \in 0..9 THEN [cell EXCEPT !.moves = @ \ {value}] ELSE PanicIndex

\* Sudoku.findMoves on the cells c of its range
findMoves(b, c, value) ==
    IF Len(c) > 0 /\ value \notin 0..9 THEN Move(b[c[1]], value)
    ELSE SelectSeq(c, LAMBDA p : Move(b[p], value))

\* Sudoku.eliminateMoves on the cells c of its range: the grid after the call
eliminateMoves(b, c, value) ==
    IF Len(c) > 0 /\ value \notin 0..9 THEN eliminateMove(b[c[1]], value)
    ELSE [p \in Pos |-> IF \E i \in DOMAIN c : c[i] = p
                         THEN eliminateMove(b[p], value) ELSE b[p]]

\* `changed := s.eliminateMoves(..); changed += s.eliminateMoves(..);
\* if changed > 0 { moves++ }`, cells being the cells of the two ranges
MainEliminated(st, cells, value) ==
    [board |-> eliminateMoves(st.board, cells, value),
     moves |-> IF Len(findMoves(st.board, cells, value)) > 0 THEN st.moves + 1 ELSE st.moves,
     err   |-> st.err]

\* s.rows[row][value], s.cols[col][value], s.squares[i][j][value] of the cells c
Flag(b, c, value) == \A i \in DOMAIN c : b[c[i]].value # value

MainPlayMoveChecks(b, row, col, value) ==
    IF row < 0 \/ row >= 9 THEN "RowOutOfBounds"
    ELSE IF col < 0 \/ col >= 9 THEN "ColOutOfBounds"
    ELSE IF value < 1 \/ value > 9 THEN "ValueOutOfBounds"
    ELSE IF b[<<row, col>>].value # 0 THEN "AlreadyContains"
    ELSE IF ~ Flag(b, Row(row), value) THEN "RowContains"
    ELSE IF ~ Flag(b, Col(col), value) THEN "ColContains"
    ELSE IF ~ Flag(b, Square(row \div 3, col \div 3), value) THEN "SquareContains"
    ELSE IF ~ Move(b[<<row, col>>], value) THEN "NotValidSpot"
    ELSE "nil"

MainPlayMove(b, row, col, value) ==
    LET failed == MainPlayMoveChecks(b, row, col, value)
    IN  IF failed # "nil" THEN [board |-> b, err |-> failed]
        ELSE LET b1 == [b EXCEPT ![<<row, col>>] = [value |-> value, moves |-> empty]]
                 b2 == eliminateMoves(b1, Range(row, 0, row, 8), value)
                 b3 == eliminateMoves(b2, Range(0, col, 8, col), value)
                 b4 == eliminateMoves(b3, Range((row \div 3) * 3, (col \div 3) * 3,
                                               (row \div 3) * 3 + 2, (col \div 3) * 3 + 2),
                                     value)
             IN  [board |-> b4,
                  err |-> IF NoMovesLeft(b4) THEN "NoMovesLeft" ELSE "nil"]

\* Sudoku.Clone of src/main.go: the struct literal copies the arrays, the clone
\* is a new grid with the contents of s
MainClone(b) == [fresh |-> TRUE, board |-> b]

\* `for value := range s.rows[row]`: the indices 0..9 of a Set
SetIndices == [i \in 1..10 |-> i - 1]

\* "Cells where only a single move is possible": the columns col.. of one row
RECURSIVE MainNakedRow(_, _, _)
MainNakedRow(st, row, col) ==
    IF col > 8 \/ st.err # "nil" THEN st
    ELSE LET values == slice(st.board[<<row, col>>].moves)
         IN  IF Len(values) = 1
             THEN MainNakedRow(Played(st, MainPlayMove(st.board, row, col, values[1])),
                               row, col + 1)
             ELSE MainNakedRow(st, row, col + 1)

\* the rows row.. of the loop
RECURSIVE MainNakedSingles(_, _)
MainNakedSingles(st, row) ==
    IF row > 8 \/ st.err # "nil" THEN st
    ELSE MainNakedSingles(MainNakedRow(st, row, 0), row + 1)

\* the values k.. of one group of a "number only fits in one cell" loop
RECURSIVE MainHiddenValues(_, _, _)
MainHiddenValues(st, group, k) ==
    IF k > Len(SetIndices) \/ st.err # "nil" THEN st
    ELSE LET cells == findMoves(st.board, group, SetIndices[k])
         IN  IF Len(cells) = 1
             THEN MainHiddenValues(Played(st, MainPlayMove(st.board, cells[1][1],
                                                           cells[1][2], SetIndices[k])),
                                   group, k + 1)
             ELSE MainHiddenValues(st, group, k + 1)

RECURSIVE MainHiddenSingles(_, _, _)
MainHiddenSingles(st, groups, i) ==
    IF i > Len(groups) \/ st.err # "nil" THEN st
    ELSE MainHiddenSingles(MainHiddenValues(st, groups[i], 1), groups, i + 1)

\* one value of the box loop of src/main.go: the row part, then the column part
MainBoxValue(st, squareRow, squareCol, value) ==
    LET cells == findMoves(st.board,
                          Range(squareRow * 3, squareCol * 3,
                                squareRow * 3 + 2, squareCol * 3 + 2), value)
        rows == UniqueRows(cells)
        st1 == IF Len(rows) = 1
               THEN MainEliminated(st, Range(rows[1], 0, rows[1], squareCol * 3 - 1)
                                   \o Range(rows[1], squareCol * 3 + 3, rows[1], 8),
                               value)
               ELSE st
        cols == UniqueCols(cells)
    IN  IF Len(cols) = 1
        THEN MainEliminated(st1, Range(0, cols[1], squareRow * 3 - 1, cols[1])
                             \o Range(squareRow * 3 + 3, cols[1], 8, cols[1]),
                        value)
        ELSE st1

\* one value of the row loop of src/main.go
MainRowValue(st, row, value) ==
    LET top == (row \div 3) * 3
        bottom == (row \div 3) * 3 + 2
        cols == UniqueCols(findMoves(st.board, Range(row, 0, row, 8), value))
        squareCols == uniqueSquares(cols)
    IN  IF Len(squareCols) = 1
        THEN LET left == squareCols[1] * 3
                 right == squareCols[1] * 3 + 2
             IN  MainEliminated(st, Range(top, left, row - 1, right)
                                \o Range(row + 1, left, bottom, right), value)
        ELSE st

\* one value of the column loop of src/main.go
MainColValue(st, col, value) ==
    LET left == (col \div 3) * 3
        right == (col \div 3) * 3 + 2
        rows == UniqueRows(findMoves(st.board, Range(0, col, 8, col), value))
        squareRows == uniqueSquares(rows)
    IN  IF Len(squareRows) = 1
        THEN LET top == squareRows[1] * 3
                 bottom == squareRows[1] * 3 + 2
             IN  MainEliminated(st, Range(top, left, bottom, col - 1)
                                \o Range(top, col + 1, bottom, right), value)
        ELSE st

\* the value loops of the three elimination loops, from index k of the Set
RECURSIVE MainBoxValues(_, _, _, _)
MainBoxValues(st, squareRow, squareCol, k) ==
    IF k > Len(SetIndices) \/ st.err # "nil" THEN st
    ELSE MainBoxValues(MainBoxValue(st, squareRow, squareCol, SetIndices[k]),
                       squareRow, squareCol, k + 1)

RECURSIVE MainRowValues(_, _, _)
MainRowValues(st, row, k) ==
    IF k > Len(SetIndices) \/ st.err # "nil" THEN st
    ELSE MainRowValues(MainRowValue(st, row, SetIndices[k]), row, k + 1)

RECURSIVE MainColValues(_, _, _)
MainColValues(st, col, k) ==
    IF k > Len(SetIndices) \/ st.err # "nil" THEN st
    ELSE MainColValues(MainColValue(st, col, SetIndices[k]), col, k + 1)

\* the three elimination loops from group i (0..8); they are entered with no
\* error and set none
RECURSIVE MainBoxElimination(_, _)
MainBoxElimination(st, i) ==
    IF i > 8 \/ st.err # "nil" THEN st
    ELSE MainBoxElimination(MainBoxValues(st, i \div 3, i % 3, 1), i + 1)

RECURSIVE MainRowElimination(_, _)
MainRowElimination(st, row) ==
    IF row > 8 \/ st.err # "nil" THEN st
    ELSE MainRowElimination(MainRowValues(st, row, 1), row + 1)

RECURSIVE MainColElimination(_, _)
MainColElimination(st, col) ==
    IF col > 8 \/ st.err # "nil" THEN st
    ELSE MainColElimination(MainColValues(st, col, 1), col + 1)

\* emptySpaces(0, 0, 8, 8)
emptySpaces(b) == Cardinality({p \in Pos : b[p].value = 0})

\* the guesses of Solve in the order its three loops try them: row, column, and
\* the candidates of the cell ascending
GuessAt(k) == <<(k - 1) \div 81, ((k - 1) \div 9) % 9, ((k - 1) % 9) + 1>>

\* the first guess at or after k that the grid b offers, 730 when there is none
NextGuess(b, k) ==
    LET left == {j \in k..729 : Move(b[<<GuessAt(j)[1], GuessAt(j)[2]>>], GuessAt(j)[3])}
    IN  IF left = {} THEN 730 ELSE CHOOSE j \in left : \A i \in left : j <= i

\* a puzzle whose first guess empties a cell
PuzzleG ==
    << <<7,0,0, 0,0,0, 0,0,0>>,
       <<0,0,6, 0,7,0, 0,4,8>>,
       <<8,0,9, 0,0,0, 5,0,6>>,
       <<0,9,3, 0,0,8, 0,5,0>>,
       <<0,0,2, 0,0,0, 0,0,0>>,
       <<4,5,0, 0,0,1, 0,0,0>>,
       <<9,0,8, 6,0,0, 0,0,0>>,
       <<0,0,5, 0,0,7, 0,0,0>>,
       <<0,0,0, 0,0,3, 0,2,0>> >>

\* a puzzle with a bad guess and then a good one
PuzzleB ==
    << <<0,0,0, 0,0,6, 1,0,0>>,
       <<5,0,0, 0,7,0, 2,0,8>>,
       <<8,1,0, 0,0,0, 0,7,0>>,
       <<0,0,0, 0,6,8, 0,0,2>>,
       <<0,0,2, 4,0,0, 3,1,0>>,
       <<0,0,7, 3,0,1, 6,8,0>>,
       <<9,0,0, 0,0,0, 4,0,0>>,
       <<3,2,5, 0,0,0, 0,0,0>>,
       <<7,0,1, 0,0,0, 8,0,0>> >>

\* a puzzle whose guesses are all bad
PuzzleX ==
    << <<2,0,6, 0,8,0, 1,9,0>>,
       <<0,0,0, 1,0,9, 0,0,0>>,
       <<0,0,0, 2,3,4, 0,0,0>>,
       <<0,0,0, 0,0,0, 4,0,2>>,
       <<0,8,2, 4,0,5, 3,1,7>>,
       <<4,5,7, 0,0,1, 0,0,0>>,
       <<9,0,0, 6,0,2, 0,0,0>>,
       <<0,2,0, 0,1,0, 0,6,0>>,
       <<7,0,0, 0,4,0, 8,0,5>> >>

\* the deepest nesting of guesses the model follows; Solve itself nests without
\* a limit (main.go:815-830), and no run from MainClueArrays nests deeper
MaxGuess == 3

MainClueArrays ==
    {Variant(PuzzleG, 0, 0), Variant(PuzzleB, 0, 0), Variant(PuzzleX, 0, 0)} \cup
    {Variant(PuzzleA, k, v) : k \in 0..2, v \in ClueValues}

MainInit ==
    /\ clues \in MainClueArrays
    /\ board = Blank
    /\ pc = "NewSudoku"
    /\ idx = 0
    /\ moves = 0
    /\ depth = 0
    /\ entry = 0
    /\ err = "nil"
    /\ call = NoCall
    /\ plays = 0
    /\ solves = 0
    /\ stack = <<>>

\* NewSudoku of src/main.go: one iteration of the clue loop that finds a clue
MainNewSudokuClue ==
    /\ pc = "NewSudoku"
    /\ NextClue(clues, idx) < 81
    /\ LET i == NextClue(clues, idx)
           cell == ClueAt(i)
           r == MainPlayMove(board, cell[1], cell[2], clues[cell])
       IN  /\ board' = r.board
           /\ err' = r.err
           /\ call' = PlayCall(cell[1], cell[2], clues[cell])
           /\ idx' = i + 1
           /\ pc' = IF r.err = "nil" THEN "NewSudoku" ELSE "idle"
    /\ UNCHANGED <<clues, moves, depth, entry, plays, solves, stack>>

\* main: NewSudoku has returned no error, s.Solve()
MainCallSolve ==
    /\ pc = "idle"
    /\ solves = 0
    /\ err = "nil"
    /\ solves' = 1
    /\ pc' = "loops"
    /\ moves' = 0
    /\ call' = SolveCall
    /\ UNCHANGED <<clues, board, idx, depth, entry, err, plays, stack>>

\* a loop of Solve in src/main.go: on an error of a PlayMove Solve returns it
MainLoop(from, to, st) ==
    /\ pc = from
    /\ board' = st.board
    /\ err' = st.err
    /\ moves' = st.moves
    /\ pc' = IF st.err = "nil" THEN to ELSE "return"
    /\ UNCHANGED <<clues, idx, depth, entry, call, plays, solves, stack>>

MainSolveNaked == MainLoop("loops", "squares1", MainNakedSingles(Here, 0))

MainSolveHiddenSquares == MainLoop("squares1", "rows1", MainHiddenSingles(Here, Squares, 1))

MainSolveHiddenRows == MainLoop("rows1", "cols1", MainHiddenSingles(Here, Rows, 1))

MainSolveHiddenCols == MainLoop("cols1", "squares2", MainHiddenSingles(Here, Cols, 1))

MainSolveBoxes == MainLoop("squares2", "rows2", MainBoxElimination(Here, 0))

MainSolveRows == MainLoop("rows2", "cols2", MainRowElimination(Here, 0))

MainSolveCols == MainLoop("cols2", "decide", MainColElimination(Here, 0))

\* if s.emptySpaces(0, 0, 8, 8) == 0 { return nil }
MainSolved ==
    /\ pc = "decide"
    /\ emptySpaces(board) = 0
    /\ pc' = "return"
    /\ err' = "nil"
    /\ UNCHANGED <<clues, board, idx, moves, depth, entry, call, plays, solves, stack>>

\* if moves > 0 { return s.Solve() }
MainRepeat ==
    /\ pc = "decide"
    /\ emptySpaces(board) # 0
    /\ moves > 0
    /\ pc' = "loops"
    /\ moves' = 0
    /\ UNCHANGED <<clues, board, idx, depth, entry, err, call, plays, solves, stack>>

\* neither: Solve enters its guessing loops
MainStall ==
    /\ pc = "decide"
    /\ emptySpaces(board) # 0
    /\ moves = 0
    /\ pc' = "guess"
    /\ idx' = 1
    /\ UNCHANGED <<clues, board, moves, depth, entry, err, call, plays, solves, stack>>

\* the guessing loops end: return errors.New("No solution found")
MainGuessExhausted ==
    /\ pc = "guess"
    /\ NextGuess(board, idx) = 730
    /\ pc' = "return"
    /\ err' = "NoSolution"
    /\ UNCHANGED <<clues, board, idx, moves, depth, entry, call, plays, solves, stack>>

\* the grid a clone's PlayMove or Solve leaves the caller of Clone with
Kept(c, own, cloned) == IF c.fresh THEN own ELSE cloned

\* clone.PlayMove(row, col, value) returns an error: return err
MainGuessPlayFails ==
    /\ pc = "guess"
    /\ NextGuess(board, idx) < 730
    /\ \E k \in {NextGuess(board, idx)}, c \in {MainClone(board)} :
       \E r \in {MainPlayMove(c.board, GuessAt(k)[1], GuessAt(k)[2], GuessAt(k)[3])} :
          /\ r.err # "nil"
          /\ board' = Kept(c, board, r.board)
          /\ idx' = k
          /\ err' = r.err
          /\ pc' = "return"
    /\ UNCHANGED <<clues, moves, depth, entry, call, plays, solves, stack>>

\* clone.PlayMove(row, col, value) returns nil: clone.Solve()
MainGuess ==
    /\ pc = "guess"
    /\ NextGuess(board, idx) < 730
    /\ Len(stack) < MaxGuess
    /\ \E k \in {NextGuess(board, idx)}, c \in {MainClone(board)} :
       \E r \in {MainPlayMove(c.board, GuessAt(k)[1], GuessAt(k)[2], GuessAt(k)[3])} :
          /\ r.err = "nil"
          /\ stack' = Append(stack, [board |-> board, alias |-> ~ c.fresh, at |-> k])
          /\ board' = r.board
          /\ idx' = k
          /\ moves' = 0
          /\ pc' = "loops"
    /\ UNCHANGED <<clues, depth, entry, err, call, plays, solves>>

\* the grid of the Solve that made the innermost guess
Guesser == IF stack[Len(stack)].alias THEN board ELSE stack[Len(stack)].board

\* clone.Solve() returns an error: "Bad guess", continue with the next guess
MainBadGuess ==
    /\ pc = "return"
    /\ stack # <<>>
    /\ err # "nil"
    /\ board' = Guesser
    /\ idx' = stack[Len(stack)].at + 1
    /\ stack' = SubSeq(stack, 1, Len(stack) - 1)
    /\ err' = "nil"
    /\ moves' = 0
    /\ pc' = "guess"
    /\ UNCHANGED <<clues, depth, entry, call, plays, solves>>

\* clone.Solve() returns nil: return nil
MainGoodGuess ==
    /\ pc = "return"
    /\ stack # <<>>
    /\ err = "nil"
    /\ board' = Guesser
    /\ idx' = stack[Len(stack)].at
    /\ stack' = SubSeq(stack, 1, Len(stack) - 1)
    /\ moves' = 0
    /\ UNCHANGED <<clues, pc, depth, entry, err, call, plays, solves>>

\* the Solve that main called returns
MainReturn ==
    /\ pc = "return"
    /\ stack = <<>>
    /\ pc' = "idle"
    /\ moves' = 0
    /\ UNCHANGED <<clues, board, idx, depth, entry, err, call, plays, solves, stack>>

MainNext ==
    \/ MainNewSudokuClue
    \/ NewSudokuDone
    \/ MainCallSolve
    \/ MainSolveNaked
    \/ MainSolveHiddenSquares
    \/ MainSolveHiddenRows
    \/ MainSolveHiddenCols
    \/ MainSolveBoxes
    \/ MainSolveRows
    \/ MainSolveCols
    \/ MainSolved
    \/ MainRepeat
    \/ MainStall
    \/ MainGuessExhausted
    \/ MainGuessPlayFails
    \/ MainGuess
    \/ MainBadGuess
    \/ MainGoodGuess
    \/ MainReturn

MainSpec == MainInit /\ [][MainNext]_vars

(***************************************************************************)
(* The other exported calls that change a grid.  The views Cell, Row, Col, *)
(* Square, Range, Cells and Groups hand out pointers into s.board, and     *)
(* Cell.Set, Cell.EliminateMove and Cells.EliminateMove are exported: the  *)
(* holder of a grid can call them on the cells of a view, with no check of *)
(* the groups and no elimination but the one asked for.  A panic ends the  *)
(* program.  These calls count as plays.                                   *)
(***************************************************************************)
\* the cell, the view and the values the caller passes
DirectCells == {<<0, 0>>}
DirectSetValues == {5, 0}
DirectEliminateValues == {1, 10}
DirectRow == 0
DirectRowValues == {3, 0}

DirectCall(op, row, col, value) == [op |-> op, row |-> row, col |-> col, value |-> value]

\* s.Cell(row, col).Set(value)
CallCellSet ==
    /\ pc = "idle"
    /\ plays < MaxPlays
    /\ \E p \in DirectCells, value \in DirectSetValues :
          /\ board' = [board EXCEPT ![p] = CellSet(@, value)]
          /\ err' = CellSetError(board[p], value)
          /\ call' = DirectCall("Cell.Set", p[1], p[2], value)
    /\ plays' = plays + 1
    /\ UNCHANGED <<clues, pc, idx, moves, depth, entry, solves, stack>>

\* s.Cell(row, col).EliminateMove(value)
CallCellEliminateMove ==
    /\ pc = "idle"
    /\ plays < MaxPlays
    /\ \E p \in DirectCells, value \in DirectEliminateValues :
          /\ IF OutOfRange(value)
             THEN pc' = "panic" /\ board' = board
             ELSE pc' = pc /\ board' = [board EXCEPT ![p] = CellEliminateMove(@, value)]
          /\ call' = DirectCall("Cell.EliminateMove", p[1], p[2], value)
    /\ err' = "nil"
    /\ plays' = plays + 1
    /\ UNCHANGED <<clues, idx, moves, depth, entry, solves, stack>>

\* s.Row(row).EliminateMove(value)
CallCellsEliminateMove ==
    /\ pc = "idle"
    /\ plays < MaxPlays
    /\ \E value \in DirectRowValues :
          /\ IF OutOfRange(value)
             THEN pc' = "panic" /\ board' = board
             ELSE pc' = pc /\ board' = EliminateMove(board, Row(DirectRow), value)
          /\ call' = DirectCall("Cells.EliminateMove", DirectRow, 0, value)
    /\ err' = "nil"
    /\ plays' = plays + 1
    /\ UNCHANGED <<clues, idx, moves, depth, entry, solves, stack>>

OpenNext == Next \/ CallCellSet \/ CallCellEliminateMove \/ CallCellsEliminateMove

OpenSpec == Init /\ [][OpenNext]_vars

(***************************************************************************)
(* Clone of src/internal, called by the holder of a grid.  A *Sudoku is    *)
(* the address of a Sudoku struct; the struct holds its board inline, an   *)
(* array of cells held by value, and a cell holds two ints and a bitmask.  *)
(* Memory is a function from the addresses of the structs to their boards. *)
(* The views of a grid are pointers &s.board[row][col]: the address of the *)
(* struct and the position of the cell in it.  Every write of the package  *)
(* goes through such a pointer.                                            *)
(*                                                                         *)
(* While two grids exist, `board` is the board of the struct the caller's  *)
(* last call was made on and stack[1] holds the rest of memory: the boards *)
(* at the other addresses (heap), the variable of that last call (on: "s"  *)
(* for the original, "c" for the clone) and the pointer Clone returned (c).*)
(***************************************************************************)
\* the address of the struct NewSudoku returned
OrigAddr == 1
\* the caller's two variables of type *Sudoku
Handles == {"s", "c"}

\* the address a new struct gets: one that no struct has
NewAddr(mem) == 1 + Cardinality(DOMAIN mem)

\* the copy `board: s.board` makes of an array of cells, field by field
CopyBoard(b) == [p \in Pos |-> [value |-> b[p].value, moves |-> b[p].moves]]

CloneShares(mem, s) == [mem |-> mem, ptr |-> s]

\* Sudoku.Clone: a new struct whose board is a copy of the receiver's
Clone(mem, s) ==
    LET a == NewAddr(mem)
    IN  [mem |-> [x \in DOMAIN mem \cup {a} |-> IF x = a THEN CopyBoard(mem[s]) ELSE mem[x]],
         ptr |-> a]

\* the address a variable of the caller holds
AddrOf(st, h) == IF h = "s" \/ st = <<>> THEN OrigAddr ELSE st[1].c

\* the boards of all structs, by address
Memory(st, b) ==
    IF st = <<>> THEN [x \in {OrigAddr} |-> b]
    ELSE [x \in DOMAIN st[1].heap \cup {AddrOf(st, st[1].on)} |->
             IF x = AddrOf(st, st[1].on) THEN b ELSE st[1].heap[x]]

\* memory with the caller's next call made on variable h whose pointer c is the
\* clone's: the entry of stack that goes with the board mem[a] of h's struct
Held(mem, h, c) ==
    LET a == IF h = "s" THEN OrigAddr ELSE c
    IN  [heap |-> [x \in DOMAIN mem \ {a} |-> mem[x]], on |-> h, c |-> c]

\* &s.board[row][col], and the list of them Range returns for the grid at a
View(a, c) == [i \in DOMAIN c |-> [at |-> a, pos |-> c[i]]]

\* the views the caller calls EliminateMove on: s.Row(0), s.Col(8), s.Square(1, 1)
ViewLists == {Row(0), Col(8), Square(1, 1)}
ViewValues == {3}
\* the element of s.Cells() the caller calls Set on
ViewIndices == {32}

\* the clue arrays of the caller that clones: the puzzle of src/main.go, which
\* Solve completes, and the same with the clue at (8, 1) blanked, where it stalls
CloneClueArrays == {Variant(PuzzleA, 0, 0), Variant(PuzzleA, 2, 0)}

\* the call h.Range(top, left, bottom, right).EliminateMove(value), the view
\* named by its first and last cell
ViewCall(c, value) ==
    [op |-> "Cells.EliminateMove", row |-> c[1][1], col |-> c[1][2], value |-> value,
     bottom |-> c[Len(c)][1], right |-> c[Len(c)][2]]

\* c := s.Clone(), at most once
CallClone ==
    /\ pc = "idle"
    /\ stack = <<>>
    /\ \E r \in {Clone(Memory(stack, board), OrigAddr)} :
          /\ stack' = <<Held(r.mem, "s", r.ptr)>>
          /\ board' = r.mem[OrigAddr]
    /\ UNCHANGED <<clues, pc, idx, moves, depth, entry, err, call, plays, solves>>

\* the caller makes its next PlayMove and Solve calls on its other variable
CallOnOther ==
    /\ pc = "idle"
    /\ stack # <<>>
    /\ \E h \in Handles \ {stack[1].on}, mem \in {Memory(stack, board)} :
          /\ stack' = <<Held(mem, h, stack[1].c)>>
          /\ board' = mem[AddrOf(stack, h)]
    /\ UNCHANGED <<clues, pc, idx, moves, depth, entry, err, call, plays, solves>>

\* h.Cells()[k].Set(value) for either variable h
CallViewCellSet ==
    /\ pc = "idle"
    /\ stack # <<>>
    /\ plays < MaxPlays
    /\ \E h \in Handles, k \in ViewIndices, value \in DirectSetValues :
       \E mem \in {Memory(stack, board)}, ptr \in {View(AddrOf(stack, h), Cells)[k]} :
       \E mem2 \in {[mem EXCEPT ![ptr.at][ptr.pos] = CellSet(@, value)]} :
          /\ stack' = <<Held(mem2, h, stack[1].c)>>
          /\ board' = mem2[AddrOf(stack, h)]
          /\ err' = CellSetError(mem[ptr.at][ptr.pos], value)
          /\ call' = DirectCall("Cell.Set", ptr.pos[1], ptr.pos[2], value)
    /\ plays' = plays + 1
    /\ UNCHANGED <<clues, pc, idx, moves, depth, entry, solves>>

\* h.Cell(row, col).EliminateMove(value) for either variable h
CallViewCellEliminateMove ==
    /\ pc = "idle"
    /\ stack # <<>>
    /\ plays < MaxPlays
    /\ \E h \in Handles, p \in DirectCells, value \in DirectEliminateValues :
       \E mem \in {Memory(stack, board)}, ptr \in {View(AddrOf(stack, h), <<p>>)[1]} :
       \E mem2 \in {IF OutOfRange(value) THEN mem
                    ELSE [mem EXCEPT ![ptr.at][ptr.pos] = CellEliminateMove(@, value)]} :
          /\ pc' = IF OutOfRange(value) THEN "panic" ELSE pc
          /\ stack' = <<Held(mem2, h, stack[1].c)>>
          /\ board' = mem2[AddrOf(stack, h)]
          /\ call' = DirectCall("Cell.EliminateMove", p[1], p[2], value)
    /\ err' = "nil"
    /\ plays' = plays + 1
    /\ UNCHANGED <<clues, idx, moves, depth, entry, solves>>

\* h.Row(0).EliminateMove(value), and the same on h.Col(8) and h.Square(1, 1),
\* for either variable h
CallViewEliminateMove ==
    /\ pc = "idle"
    /\ stack # <<>>
    /\ plays < MaxPlays
    /\ \E h \in Handles, c \in ViewLists, value \in ViewValues :
       \E mem \in {Memory(stack, board)}, view \in {View(AddrOf(stack, h), c)} :
       \E mem2 \in {IF OutOfRange(value) THEN mem
                    ELSE [mem EXCEPT ![view[1].at] = EliminateMove(@, [i \in DOMAIN view |-> view[i].pos], value)]} :
          /\ pc' = IF OutOfRange(value) THEN "panic" ELSE pc
          /\ stack' = <<Held(mem2, h, stack[1].c)>>
          /\ board' = mem2[AddrOf(stack, h)]
          /\ call' = ViewCall(c, value)
    /\ err' = "nil"
    /\ plays' = plays + 1
    /\ UNCHANGED <<clues, idx, moves, depth, entry, solves>>

CloneNext ==
    \/ Next
    \/ CallClone
    \/ CallOnOther
    \/ CallViewCellSet
    \/ CallViewCellEliminateMove
    \/ CallViewEliminateMove

CloneInit ==
    /\ clues \in CloneClueArrays
    /\ board = Blank
    /\ pc = "NewSudoku"
    /\ idx = 0
    /\ moves = 0
    /\ depth = 0
    /\ entry = 0
    /\ err = "nil"
    /\ call = NoCall
    /\ plays = 0
    /\ solves = 0
    /\ stack = <<>>

CloneSpec == CloneInit /\ [][CloneNext]_vars

(***************************************************************************)
(* Vocabulary of the claims, stated on positions and values only.          *)
(***************************************************************************)
SameRow(p, q) == p[1] = q[1]
SameCol(p, q) == p[2] = q[2]
SameBox(p, q) == p[1] \div 3 = q[1] \div 3 /\ p[2] \div 3 = q[2] \div 3

\* the other cells of the row, the column and the box of a cell
PeersOf == [p \in Pos |-> {q \in Pos : q # p /\ (SameRow(p, q) \/ SameCol(p, q) \/ SameBox(p, q))}]

\* the 27 groups as sets of positions
RowSets == {{p \in Pos : p[1] = r} : r \in 0..8}
ColSets == {{p \in Pos : p[2] = c} : c \in 0..8}
BoxSets == {{p \in Pos : p[1] \div 3 = i /\ p[2] \div 3 = j} : i \in 0..2, j \in 0..2}
GroupSets == RowSets \cup ColSets \cup BoxSets

\* the step is a PlayMove call, made by NewSudoku for a clue or by the caller
PlayMoveStep == call'.op = "PlayMove" /\ (pc = "NewSudoku" \/ plays' # plays)

\* the last call was Solve and it has returned
SolveReturned == pc = "idle" /\ call.op = "Solve"

\* NewSudoku has just returned
NewSudokuReturned == pc = "idle" /\ plays = 0 /\ solves = 0

\* arguments a caller may pass to PlayMove, in and out of range
ArgRows == -1..9
ArgCols == -1..9
ArgValues == 0..10

InRange(row, col, value) == row \in 0..8 /\ col \in 0..8 /\ value \in 1..9

\* the union of the candidate sets of each row, column and box of b
RowUnion(b) == [r \in 0..8 |-> UNION {b[<<r, c>>].moves : c \in 0..8}]
ColUnion(b) == [c \in 0..8 |-> UNION {b[<<r, c>>].moves : r \in 0..8}]
BoxUnion(b) ==
    [i \in 0..2 |-> [j \in 0..2 |->
        UNION {b[<<3 * i + r, 3 * j + c>>].moves : r \in 0..2, c \in 0..2}]]

\* the values that the cells of each row, column and box of b hold
RowHeld(b) == [r \in 0..8 |-> {b[<<r, c>>].value : c \in 0..8} \ {0}]
ColHeld(b) == [c \in 0..8 |-> {b[<<r, c>>].value : r \in 0..8} \ {0}]
BoxHeld(b) ==
    [i \in 0..2 |-> [j \in 0..2 |->
        {b[<<3 * i + r, 3 * j + c>>].value : r \in 0..2, c \in 0..2} \ {0}]]

(***************************************************************************)
(* C1: in every reachable grid the assigned values of each row, column     *)
(* and box are pairwise distinct.                                          *)
(***************************************************************************)
C1_GroupsDistinct ==
    \A g \in GroupSets :
        \A held \in {{p \in g : board[p].value # 0}} :
            Cardinality({board[p].value : p \in held}) = Cardinality(held)

\* Solve has run into a contradiction on a grid the caller had played on
C1_Witness ==
    /\ SolveReturned /\ err = "NoMovesLeft" /\ plays > 0
    /\ \E p \in Pos : \E q \in PeersOf[p] : board[p].value # 0 /\ board[q].value # 0

(***************************************************************************)
(* C2: when Solve returns nil every cell is assigned and every row,        *)
(* column and box holds each of 1..9 exactly once.                         *)
(***************************************************************************)
C2_SolvedIsComplete ==
    (SolveReturned /\ err = "nil") =>
        /\ \A p \in Pos : board[p].value \in Values
        /\ \A g \in GroupSets : \A v \in Values :
              Cardinality({p \in g : board[p].value = v}) = 1

C2_Witness == SolveReturned /\ err = "nil" /\ depth = 0 /\ board[<<0, 0>>].value # 0

(***************************************************************************)
(* C3: a candidate set never gains a value: every step leaves each cell's  *)
(* candidate set a subset of what it was.                                  *)
(***************************************************************************)
C3_CandidatesShrink ==
    [][\A p \in Pos : board'[p].moves \subseteq board[p].moves]_vars

\* the subset loop has removed candidates, on a grid the caller had played on
C3_Witness == pc = "recheck" /\ moves > 0 /\ plays > 0

(***************************************************************************)
(* C4: PlayMove validates in a fixed order: out of range before anything   *)
(* else, then the cell already assigned, then the group conflicts, then    *)
(* the cell's own candidates.                                              *)
(***************************************************************************)
C4_ValidationOrder ==
    \A rows \in {RowUnion(board)}, cols \in {ColUnion(board)}, boxes \in {BoxUnion(board)} :
        \A row \in ArgRows, col \in ArgCols, value \in ArgValues :
            LET kind == Kind(PlayMove(board, row, col, value).err)
                cell == board[<<row, col>>]
            IN  IF ~ InRange(row, col, value) THEN kind = "OutOfBounds"
                ELSE IF cell.value # 0 THEN kind = "AlreadyAssigned"
                ELSE IF \/ value \notin rows[row]
                        \/ value \notin cols[col]
                        \/ value \notin boxes[row \div 3][col \div 3]
                     THEN kind = "GroupConflict"
                ELSE IF value \notin cell.moves THEN kind = "IllegalMove"
                ELSE TRUE

\* the caller played a value that a peer holds on a cell that is already assigned
C4_Witness ==
    /\ pc = "idle" /\ call.op = "PlayMove" /\ plays > 0
    /\ InRange(call.row, call.col, call.value)
    /\ Kind(err) = "AlreadyAssigned"
    /\ \E q \in PeersOf[<<call.row, call.col>>] : board[q].value = call.value

(***************************************************************************)
(* C5: on an unset cell, a value that another cell of its row, column or   *)
(* box holds is refused with GroupConflict.                                *)
(***************************************************************************)
C5_PeerValueRefused ==
    \A rows \in {RowHeld(board)}, cols \in {ColHeld(board)}, boxes \in {BoxHeld(board)} :
        \A row \in 0..8, col \in 0..8 : board[<<row, col>>].value = 0 =>
            \A value \in rows[row] \cup cols[col] \cup boxes[row \div 3][col \div 3] :
                Kind(PlayMove(board, row, col, value).err) = "GroupConflict"

\* the caller played, on an unset cell, a value that a peer of the cell holds
C5_Witness ==
    /\ pc = "idle" /\ call.op = "PlayMove" /\ plays > 0
    /\ InRange(call.row, call.col, call.value)
    /\ board[<<call.row, call.col>>].value = 0
    /\ \E q \in PeersOf[<<call.row, call.col>>] : board[q].value = call.value
    /\ Kind(err) = "GroupConflict"

(***************************************************************************)
(* C6: a clue array with the same value twice in one box makes NewSudoku   *)
(* fail, and fail with GroupConflict.                                      *)
(***************************************************************************)
\* row-major index of a position
Index(p) == 9 * p[1] + p[2]

\* the pairs of equal non-zero clues of one box, the first before the second
BoxPairs(cl) ==
    {pq \in Pos \X Pos : /\ Index(pq[1]) < Index(pq[2])
                         /\ SameBox(pq[1], pq[2])
                         /\ cl[pq[1]] # 0
                         /\ cl[pq[1]] = cl[pq[2]]}

\* the claim as it stands
C6_BoxDuplicateIsGroupConflict ==
    (NewSudokuReturned /\ BoxPairs(clues) # {}) => Kind(err) = "GroupConflict"

\* as amended: NewSudoku fails at the first clue, in row-major order, whose
\* PlayMove fails, and no later than at the second clue of a pair; the error
\* is GroupConflict when it is that second clue that fails, and GroupConflict
\* or Contradiction when an earlier clue does
C6_BoxDuplicateFails ==
    (NewSudokuReturned /\ BoxPairs(clues) # {}) =>
        /\ Kind(err) \in {"GroupConflict", "Contradiction"}
        /\ call.op = "PlayMove"
        /\ \A pq \in BoxPairs(clues) :
              /\ Index(<<call.row, call.col>>) <= Index(pq[2])
              /\ <<call.row, call.col>> = pq[2] => Kind(err) = "GroupConflict"

\* NewSudoku has failed at the second clue of a pair
C6_Witness ==
    /\ NewSudokuReturned
    /\ \E pq \in BoxPairs(clues) : <<call.row, call.col>> = pq[2]
    /\ call.op = "PlayMove" /\ err = "SquareContains"

(***************************************************************************)
(* C7: a PlayMove that passes the checks returns Contradiction exactly     *)
(* when it leaves an unset cell without candidates, and nil otherwise.     *)
(***************************************************************************)
\* the checks of PlayMove, stated on the grid: in range, cell unset, value in
\* the unions of the three groups and among the cell's candidates
Passes(b, row, col, value) ==
    /\ InRange(row, col, value)
    /\ b[<<row, col>>].value = 0
    /\ value \in RowUnion(b)[row]
    /\ value \in ColUnion(b)[col]
    /\ value \in BoxUnion(b)[row \div 3][col \div 3]
    /\ value \in b[<<row, col>>].moves

C7_ContradictionIffEmptyCell ==
    [][(PlayMoveStep /\ Passes(board, call'.row, call'.col, call'.value)) =>
          IF \E p \in Pos : board'[p].value = 0 /\ board'[p].moves = {}
          THEN Kind(err') = "Contradiction"
          ELSE err' = "nil"]_vars

\* a PlayMove has set its cell and returned Contradiction
C7_Witness ==
    /\ pc = "idle" /\ call.op = "PlayMove" /\ Kind(err) = "Contradiction"
    /\ board[<<call.row, call.col>>].value = call.value

(***************************************************************************)
(* C8: a successful PlayMove sets its cell, empties the cell's candidates, *)
(* removes the value from the peers' candidates and changes nothing else.  *)
(***************************************************************************)
C8_PlayMoveFrame ==
    [][(PlayMoveStep /\ err' = "nil") =>
          LET cell == <<call'.row, call'.col>>
          IN  /\ board'[cell] = [value |-> call'.value, moves |-> {}]
              /\ \A q \in Pos \ {cell} :
                    /\ board'[q].value = board[q].value
                    /\ board'[q].moves =
                          IF q \in PeersOf[cell]
                          THEN board[q].moves \ {call'.value}
                          ELSE board[q].moves]_vars

\* the caller's PlayMove has succeeded
C8_Witness ==
    /\ pc = "idle" /\ call.op = "PlayMove" /\ plays > 0 /\ err = "nil"
    /\ board[<<call.row, call.col>>].value = call.value

(***************************************************************************)
(* C9: NewSudoku and Solve return; Solve returns nil, NoSolution or the    *)
(* Contradiction of a PlayMove; and Solve enters itself again only after a *)
(* change: the number of unset cells plus the number of candidates is then *)
(* smaller than when the activation began.                                 *)
(***************************************************************************)
SolveAgainStep == pc \in {"check", "recheck"} /\ pc' = "naked"

C9_Terminates ==
    /\ [](pc # "idle" => <>(pc = "idle"))
    /\ [](SolveReturned => Kind(err) \in {"nil", "NoSolution", "Contradiction"})
    /\ [][SolveAgainStep => Measure(board') < entry]_vars

\* Solve has entered itself again after the subset loop
C9_Witness == pc = "naked" /\ depth > 1 /\ entry < Measure(Blank) /\ solves > 0

\* a running call takes its next step: every step of NewSudoku and of Solve
\* moves the position <<pc, idx>> of the call, and no other step does while a
\* call is running
PcValues == {"NewSudoku", "idle", "naked", "hiddenSquares", "hiddenRows", "hiddenCols",
             "boxes", "rows", "cols", "check", "subsets", "recheck"}

Running ==
    /\ pc # "idle"
    /\ \E q \in PcValues, j \in 0..81 :
          /\ <<q, j>> # <<pc, idx>>
          /\ pc' = q
          /\ idx' = j

FairSpec == Spec /\ WF_<<pc, idx>>(Running)

(***************************************************************************)
(* C11: when a sweep has made no change and the grid is incomplete, Solve  *)
(* does not fail at once: it returns NoSolution only when no candidate of  *)
(* an unset cell is left to try.                                           *)
(***************************************************************************)
\* the candidates of the unset cells of b, what a guess could still try
Untried(b) == {pv \in Pos \X Values : b[pv[1]].value = 0 /\ pv[2] \in b[pv[1]].moves}

\* Solve stands after its last loop and no loop of the sweep has changed the grid
Stalled == pc = "recheck" /\ moves = 0

C11_StallGoesOnToGuess ==
    [][(Stalled /\ Untried(board) # {}) => ~ (pc' = "idle" /\ err' = "NoSolution")]_vars

(* C12: in the guessing step, a PlayMove on the clone that fails is a failed *)
(* branch: Solve goes on with the next candidate and does not return the    *)
(* error of that PlayMove to its caller.                                    *)
\* what the PlayMove of the guess Solve is about to make returns
GuessPlay ==
    LET k == NextGuess(board, idx)
    IN  MainPlayMove(board, GuessAt(k)[1], GuessAt(k)[2], GuessAt(k)[3])

\* Solve stands in its guessing loops with a guess left whose PlayMove fails
GuessFails == pc = "guess" /\ NextGuess(board, idx) < 730 /\ GuessPlay.err # "nil"

C12_FailedGuessIsABranch ==
    [][GuessFails => ~ (pc' = "return" /\ err' = GuessPlay.err)]_vars

(* C13: when a guess succeeds, the first success is the overall solution:   *)
(* the grid of the Solve that made the guess is fully assigned when that    *)
(* Solve returns nil.                                                       *)
\* the Solve of a clone has returned nil to the Solve that guessed
GuessSucceeded == pc = "return" /\ stack # <<>> /\ err = "nil"

C13_GuessSuccessIsTheSolution ==
    [][GuessSucceeded => (err' = "nil" /\ emptySpaces(board') = 0)]_vars

(* C14: Clone returns a grid equal to the original in every value and       *)
(* candidate set, and independent of it: a call made on one of the two      *)
(* grids (PlayMove, a step of Solve, or a write through a view taken from   *)
(* it) leaves every value and candidate set of the other as it was.         *)
\* the board of the struct the caller's variable h points at
GridOf(st, b, h) == Memory(st, b)[AddrOf(st, h)]

\* the two boards hold the same value and candidates in every cell
SameCells(b1, b2) ==
    \A p \in Pos : b1[p].value = b2[p].value /\ b1[p].moves = b2[p].moves

C14_CloneIsIndependent ==
    [][/\ (stack = <<>> /\ stack' # <<>>) =>
              /\ SameCells(GridOf(stack', board', "c"), board)
              /\ SameCells(GridOf(stack', board', "s"), board)
       /\ stack # <<>> =>
              \A g \in Handles \ {stack'[1].on} :
                 SameCells(GridOf(stack', board', g), GridOf(stack, board, g))]_vars

\* Solve has completed the original, which the clone was taken from before,
\* and the last call, c.Row(0).EliminateMove(3), took the candidate 3 from the
\* row of the clone, where no cell holds a 3
C14_Witness ==
    /\ stack # <<>>
    /\ pc = "idle"
    /\ stack[1].on = "c"
    /\ call = ViewCall(Row(0), 3)
    /\ Complete(GridOf(stack, board, "s"))
    /\ \A i \in DOMAIN Row(0) :
          /\ GridOf(stack, board, "c")[Row(0)[i]].value # 3
          /\ 3 \notin GridOf(stack, board, "c")[Row(0)[i]].moves
    /\ ~ SameCells(GridOf(stack, board, "s"), GridOf(stack, board, "c"))

(* C15: IllegalMove is unreachable: no PlayMove on a grid reached through   *)
(* NewSudoku, Solve and PlayMove passes the three group checks and then     *)
(* fails on the candidates of the cell.                                     *)
C15_IllegalMoveUnreachable == Kind(err) # "IllegalMove"

(* C15, as the code has it: on a grid that only NewSudoku and PlayMove have *)
(* worked on no PlayMove fails with IllegalMove, and no PlayMove of Solve    *)
(* does; the only IllegalMove is that of a PlayMove of the caller after     *)
(* Solve has removed candidates.                                            *)
C15_IllegalMoveOnlyAfterSolve ==
    /\ solves = 0 =>
          \A row \in 0..8, col \in 0..8, value \in Values :
              Kind(PlayMoveChecks(board, row, col, value)) # "IllegalMove"
    /\ Kind(err) = "IllegalMove" => (call.op = "PlayMove" /\ plays > 0 /\ solves > 0)

\* the caller's PlayMove has passed the group checks and failed on the cell,
\* whose candidate Solve had removed
C15_Witness ==
    /\ pc = "idle" /\ call.op = "PlayMove" /\ plays > 0 /\ solves > 0
    /\ Kind(err) = "IllegalMove"
    /\ board[<<call.row, call.col>>].value = 0
    /\ call.value \notin board[<<call.row, call.col>>].moves
    /\ \A q \in PeersOf[<<call.row, call.col>>] : board[q].value # call.value

(* C16: every sweep of Solve applies all five techniques before it decides  *)
(* whether to sweep again: after the loops of the first four techniques,    *)
(* on an incomplete grid, the subset loop runs next, whether or not they    *)
(* have made a change.                                                      *)
\* the loops of the first four techniques are done and the grid is incomplete
SweptFour == pc = "check" /\ ~ Complete(board)

C16_SubsetsInEverySweep == [][SweptFour => pc' = "subsets"]_vars

(* C16, as the code has it: the subset loop runs only in a sweep whose      *)
(* first four techniques have changed nothing; after a sweep in which they  *)
(* have, Solve starts the next sweep at once.                               *)
C16_SubsetsOnlyWhenStalled ==
    [][/\ (pc' = "subsets" /\ pc # "subsets") => (SweptFour /\ moves = 0)
       /\ (SweptFour /\ moves > 0) => (pc' = "naked" /\ depth' = depth + 1)
       /\ (SweptFour /\ moves = 0) => pc' = "subsets"]_vars

\* a sweep after the first has changed the grid in its first four techniques
\* and has not finished it
C16_Witness == SweptFour /\ moves > 0 /\ depth > 0

(* C17: naked single: in the first pass of a sweep every unset cell whose   *)
(* candidate set has exactly one value when the pass, going row by row,     *)
(* reaches it is assigned that value through PlayMove, and no other cell is *)
(* assigned; so the only blank of a row, left with one candidate, holds it  *)
(* after one sweep.                                                         *)
\* the first pass of a sweep has run to its end without an error
NakedPass == pc = "naked" /\ pc' = "hiddenSquares"

\* the candidates of the unset cell p of b when a row-major pass that ends in
\* b2 reaches it: those of b less the values the pass has put on earlier peers
Reached(b, b2, p) ==
    b[p].moves \ {b2[q].value : q \in {r \in PeersOf[p] : Index(r) < Index(p) /\ b[r].value = 0}}

C17_NakedSingle ==
    [][NakedPass =>
          /\ \A p \in Pos :
                IF board[p].value # 0 THEN board'[p] = board[p]
                ELSE \A left \in {Reached(board, board', p)} :
                        IF Cardinality(left) = 1
                        THEN /\ board'[p].value \in left
                             /\ board'[p].moves = empty
                             /\ \A q \in PeersOf[p] : board'[p].value \notin board'[q].moves
                        ELSE board'[p].value = 0
          /\ moves' = moves + Cardinality({p \in Pos : board[p].value = 0 /\ board'[p].value # 0})]_vars

\* the first pass of a sweep is over, has assigned a cell and leaves a row
\* without a blank
C17_Witness ==
    /\ pc = "hiddenSquares" /\ moves > 0
    /\ \E r \in 0..8 : \A c \in 0..8 : board[<<r, c>>].value # 0

(* C18: hidden single: for each box, row and column and each value of the   *)
(* group's candidate union, if exactly one cell of the group has the value  *)
(* as a candidate when the value is examined, the pass assigns the value to *)
(* that cell, whatever else the cell's candidate set holds; for a value     *)
(* with no or several such cells it assigns nothing.                        *)
\* the cells of the group g of b that have the value v as a candidate
Eligible(b, g, v) == {g[k] : k \in {j \in DOMAIN g : v \in b[g[j]].moves}}

\* the group and value pairs of b with exactly one eligible cell, <<i, v>> for
\* value v in group number i of groups
Singles(b, groups) ==
    {iv \in (1..9) \X Values : Cardinality(Eligible(b, groups[iv[1]], iv[2])) = 1}

\* the examination of one value in every group of a pass, on the grid the pass
\* starts from
HiddenValue(groups) ==
    \A i \in 1..9, v \in Values :
        \A cells \in {Eligible(board, groups[i], v)},
           one \in {HiddenValues(Here, groups[i], <<v>>, 1)} :
            IF Cardinality(cells) = 1
            THEN /\ \A p \in cells : one.board[p].value = v /\ one.board[p].moves = empty
                 /\ \A p \in Pos \ cells : one.board[p].value = board[p].value
                 /\ one.err \in {"nil", "NoMovesLeft"}
                 /\ one.err = "nil" => one.moves = moves + 1
            ELSE one.board = board /\ one.moves = moves /\ one.err = "nil"

\* the pass as a whole: the first pair in the order of the loops that has one
\* eligible cell is played, and a pass that finds no such pair changes nothing
HiddenPass(groups) ==
    \A singles \in {Singles(board, groups)} :
        IF singles = {}
        THEN board' = board /\ moves' = moves /\ pc' # "idle"
        ELSE \E iv \in singles :
                /\ \A other \in singles :
                      iv[1] < other[1] \/ (iv[1] = other[1] /\ iv[2] <= other[2])
                /\ \A p \in Eligible(board, groups[iv[1]], iv[2]) : board'[p].value = iv[2]

C18_HiddenSingle ==
    [][/\ pc = "hiddenSquares" => (HiddenValue(Squares) /\ HiddenPass(Squares))
       /\ pc = "hiddenRows" => (HiddenValue(Rows) /\ HiddenPass(Rows))
       /\ pc = "hiddenCols" => (HiddenValue(Cols) /\ HiddenPass(Cols))]_vars

\* Solve stands before the hidden-single pass of the rows on a grid where a
\* value fits in one cell of a row and that cell has other candidates too
C18_Witness ==
    /\ pc = "hiddenRows"
    /\ \E iv \in Singles(board, Rows) :
          \A p \in Eligible(board, Rows[iv[1]], iv[2]) : Cardinality(board[p].moves) > 1

(* C19: box elimination by line: for a box and a value, the pass removes    *)
(* the value if and only if all cells of the box that can hold it lie in    *)
(* one row (or one column), and then from exactly the cells of that row (or *)
(* column) outside the box, never from a cell of the box or of another row  *)
(* or column.                                                               *)
\* the cells of b that the grid b2 has taken the candidate v from
Removed(b, b2, v) == {p \in Pos : v \in b[p].moves /\ v \notin b2[p].moves}

\* b2 is b but for the candidate v of some cells
OnlyRemoves(b, b2, v) ==
    \A p \in Pos : /\ b2[p].value = b[p].value
                    /\ b2[p].moves \subseteq b[p].moves
                    /\ b[p].moves \ b2[p].moves \subseteq {v}

\* the cells outside box number i that hold the candidate v in b and lie in the
\* one row, or in the one column, of the cells of the box that can hold v
RowTargets(b, i, v) ==
    LET cells == Eligible(b, Squares[i], v)
    IN  IF Cardinality({p[1] : p \in cells}) = 1
        THEN {q \in Pos : /\ \E p \in cells : q[1] = p[1] /\ ~ SameBox(p, q)
                          /\ v \in b[q].moves}
        ELSE {}

ColTargets(b, i, v) ==
    LET cells == Eligible(b, Squares[i], v)
    IN  IF Cardinality({p[2] : p \in cells}) = 1
        THEN {q \in Pos : /\ \E p \in cells : q[2] = p[2] /\ ~ SameBox(p, q)
                          /\ v \in b[q].moves}
        ELSE {}

\* the examination of one value in each box, on the grid the pass starts from
BoxValueRemoves ==
    \A i \in 1..9, v \in Values :
        \A rows \in {RowTargets(board, i, v)}, cols \in {ColTargets(board, i, v)},
           one \in {BoxValue(Here, Squares[i], v)} :
            /\ OnlyRemoves(board, one.board, v)
            /\ Removed(board, one.board, v) = rows \cup cols
            /\ one.moves = moves + (IF rows = {} THEN 0 ELSE 1) + (IF cols = {} THEN 0 ELSE 1)
            /\ one.err = "nil"

\* the pairs <<i, v>> of a box and a value whose examination removes something
BoxPairsToDo(b) ==
    {iv \in (1..9) \X Values :
        RowTargets(b, iv[1], iv[2]) \cup ColTargets(b, iv[1], iv[2]) # {}}

\* the pass as a whole: it assigns nothing and returns no error, the first pair
\* in the order of the loops that removes something has done so at the end,
\* and a pass without such a pair changes nothing
BoxPass ==
    /\ pc' = "rows"
    /\ \A p \in Pos : board'[p].value = board[p].value /\ board'[p].moves \subseteq board[p].moves
    /\ \A todo \in {BoxPairsToDo(board)} :
          IF todo = {}
          THEN board' = board /\ moves' = moves
          ELSE /\ moves' > moves
               /\ \E iv \in todo :
                     /\ \A other \in todo :
                           iv[1] < other[1] \/ (iv[1] = other[1] /\ iv[2] <= other[2])
                     /\ \A q \in RowTargets(board, iv[1], iv[2])
                                 \cup ColTargets(board, iv[1], iv[2]) :
                           iv[2] \notin board'[q].moves

C19_BoxEliminationByLine == [][pc = "boxes" => (BoxValueRemoves /\ BoxPass)]_vars

\* Solve stands before the box pass on a grid where the cells of a box that can
\* hold a value are several cells of one row, and a cell of that row outside
\* the box can hold it too
C19_Witness ==
    /\ pc = "boxes"
    /\ \E i \in 1..9, v \in Values :
          /\ Cardinality(Eligible(board, Squares[i], v)) > 1
          /\ RowTargets(board, i, v) # {}

(* C20: line elimination by box: for a row (or a column) and a value, the   *)
(* pass removes the value if and only if all cells of the line that can     *)
(* hold it lie in one box, and then from exactly the cells of that box that *)
(* are not on the line; the box is the one that holds those cells.          *)
\* the cells off the line g that hold the candidate v in b and lie in the one
\* box of the cells of the line that can hold v
LineTargets(b, g, v) ==
    LET cells == Eligible(b, g, v)
    IN  IF cells # {} /\ \A p, q \in cells : SameBox(p, q)
        THEN {q \in Pos : /\ \E p \in cells : SameBox(p, q)
                          /\ \A k \in DOMAIN g : g[k] # q
                          /\ v \in b[q].moves}
        ELSE {}

\* the examination of one value in each line of a pass, on the grid the pass
\* starts from; one is what the loop body makes of it
LineValueRemoves(g, v, one) ==
    \A targets \in {LineTargets(board, g, v)} :
        /\ OnlyRemoves(board, one.board, v)
        /\ Removed(board, one.board, v) = targets
        /\ one.moves = moves + (IF targets = {} THEN 0 ELSE 1)
        /\ one.err = "nil"

\* the pairs <<i, v>> of a line and a value whose examination removes something
LinePairsToDo(b, lines) ==
    {iv \in (1..9) \X Values : LineTargets(b, lines[iv[1]], iv[2]) # {}}

\* the pass as a whole, as for the boxes
LinePass(lines, to) ==
    /\ pc' = to
    /\ \A p \in Pos : board'[p].value = board[p].value /\ board'[p].moves \subseteq board[p].moves
    /\ \A todo \in {LinePairsToDo(board, lines)} :
          IF todo = {}
          THEN board' = board /\ moves' = moves
          ELSE /\ moves' > moves
               /\ \E iv \in todo :
                     /\ \A other \in todo :
                           iv[1] < other[1] \/ (iv[1] = other[1] /\ iv[2] <= other[2])
                     /\ \A q \in LineTargets(board, lines[iv[1]], iv[2]) :
                           iv[2] \notin board'[q].moves

C20_LineEliminationByBox ==
    [][/\ pc = "rows" =>
             /\ \A i \in 1..9, v \in Values :
                   LineValueRemoves(Rows[i], v, RowValue(Here, Rows[i], v))
             /\ LinePass(Rows, "cols")
       /\ pc = "cols" =>
             /\ \A i \in 1..9, v \in Values :
                   LineValueRemoves(Cols[i], v, ColValue(Here, Cols[i], v))
             /\ LinePass(Cols, "check")]_vars

\* Solve stands before the column pass on a grid where the cells of a column
\* that can hold a value lie in one box, and a cell of that box off the column
\* can hold it too
C20_Witness ==
    /\ pc = "cols"
    /\ \E i \in 1..9, v \in Values : LineTargets(board, Cols[i], v) # {}

(* C23: a PlayMove that fails with OutOfBounds, AlreadyAssigned,            *)
(* GroupConflict or IllegalMove leaves the whole grid as it was: every      *)
(* value and every candidate set.                                           *)
\* the kinds of error of the checks that PlayMove makes before it sets the cell
Refusals == {"OutOfBounds", "AlreadyAssigned", "GroupConflict", "IllegalMove"}

\* NewSudoku or Solve hands a grid to the caller
HandsOver == pc # "idle" /\ pc' = "idle"

C23_RefusalChangesNothing ==
    [][/\ (PlayMoveStep /\ Kind(err') \in Refusals) => board' = board
       /\ HandsOver =>
             \A row \in ArgRows, col \in ArgCols, value \in ArgValues :
                 \A r \in {PlayMove(board', row, col, value)} :
                     Kind(r.err) \in Refusals => r.board = board']_vars

\* after Solve has worked on the grid, a PlayMove of the caller has been refused
\* for a value that a group of the cell can no longer take
C23_Witness ==
    /\ pc = "idle" /\ call.op = "PlayMove" /\ plays > 0 /\ solves > 0
    /\ Kind(err) = "GroupConflict"
    /\ \E p \in Pos : board[p].value # 0

(* C21: subset exclusion: in each of the 27 groups only the subsets S of    *)
(* the unset cells with 2 <= |S| <= (number of unset cells) - 1 count; when *)
(* the union of the candidates of S has exactly |S| values, these values    *)
(* are removed from every other unset cell of the group and from no cell of *)
(* S; the subset of all unset cells removes nothing, and no value outside   *)
(* the union is removed.                                                    *)
\* the members of a list of cells
SetOf(c) == {c[k] : k \in DOMAIN c}

\* the union of the candidates in b of the cells S
UnionOf(b, S) == UNION {b[p].moves : p \in S}

\* the subset S of the unset cells U of a group confines its values in b
Confines(b, U, S) ==
    /\ Cardinality(S) >= 2
    /\ Cardinality(S) <= Cardinality(U) - 1
    /\ Cardinality(UnionOf(b, S)) = Cardinality(S)

\* what one subset S of the unset cells U makes of the grid the pass starts
\* from: out is what the loop body returns
SubsetRemoves(U, S, out) ==
    \A union \in {UnionOf(board, S)} :
        IF Confines(board, U, S)
        THEN /\ \A p \in Pos :
                   /\ out.board[p].value = board[p].value
                   /\ out.board[p].moves =
                         IF p \in U \ S THEN board[p].moves \ union ELSE board[p].moves
             /\ out.moves = moves + Cardinality(union \cap UnionOf(board, U \ S))
             /\ out.err = "nil"
        ELSE out = Here

\* every subset of every group, on the grid the pass starts from
SubsetValueRemoves ==
    \A i \in DOMAIN Groups :
        \A group \in {UnsetOnly(board, Groups[i])} :
            \A sets \in {PowerSet(group)} :
                /\ {SetOf(sets[k]) : k \in DOMAIN sets} = SUBSET SetOf(group)
                /\ \A k \in DOMAIN sets :
                      SubsetRemoves(SetOf(group), SetOf(sets[k]), Subset(Here, group, sets[k]))

\* the subset S of the unset cells U has something to remove in b
SubsetToDo(b, U, S) ==
    Confines(b, U, S) /\ UnionOf(b, S) \cap UnionOf(b, U \ S) # {}

\* the groups where some subset has something to remove in b
GroupsToDo(b) ==
    {i \in DOMAIN Groups :
        \E U \in {SetOf(UnsetOnly(b, Groups[i]))} : \E S \in SUBSET U : SubsetToDo(b, U, S)}

\* the pass as a whole: it ends at the re-entry test, sets no cell and gives
\* no candidate back; when no subset has anything to remove it changes
\* nothing; otherwise the first subset with something to remove, in the order
\* of the groups and of PowerSet, has been carried out
SubsetPass ==
    /\ pc' = "recheck" /\ err' = err
    /\ \A p \in Pos : board'[p].value = board[p].value /\ board'[p].moves \subseteq board[p].moves
    /\ \A todo \in {GroupsToDo(board)} :
          IF todo = {}
          THEN board' = board /\ moves' = moves
          ELSE /\ moves' > moves
               /\ \E i \in todo :
                     /\ \A other \in todo : i <= other
                     /\ \A group \in {UnsetOnly(board, Groups[i])} :
                        \A sets \in {PowerSet(group)} :
                           \E k \in DOMAIN sets :
                              /\ SubsetToDo(board, SetOf(group), SetOf(sets[k]))
                              /\ \A j \in 1..(k - 1) :
                                    ~SubsetToDo(board, SetOf(group), SetOf(sets[j]))
                              /\ \A q \in SetOf(group) \ SetOf(sets[k]) :
                                    board'[q].moves \cap UnionOf(board, SetOf(sets[k])) = {}

C21_SubsetExclusion ==
    [][pc = "subsets" => SubsetValueRemoves /\ SubsetPass]_vars

\* Solve stands before the subset pass on a grid where a proper subset of at
\* least two unset cells of a group confines its values and another unset
\* cell of the group can hold one of them, and where all the unset cells of a
\* group hold together as many values as they are
C21_Witness ==
    /\ pc = "subsets"
    /\ GroupsToDo(board) # {}
    /\ \E i \in DOMAIN Groups :
          \E U \in {SetOf(UnsetOnly(board, Groups[i]))} :
             Cardinality(U) >= 2 /\ Cardinality(UnionOf(board, U)) = Cardinality(U)

(* C22: deduction is sound: for every valid completion G of the clue grid   *)
(* (G agrees with the clues and each row, column and box of G holds 1..9    *)
(* once), in every state reached by NewSudoku followed by Solve each        *)
(* assigned cell holds its value in G and each unset cell can still hold    *)
(* its value in G; on a solvable puzzle no wrong value is assigned, no      *)
(* correct candidate is removed and Contradiction is never raised.          *)
\* complete grids: every completion of PuzzleA and of PuzzleA with one clue of
\* VariantCells overridden is among them
CompleteGrids == <<
    << <<2,7,4, 5,8,6, 1,9,3>>,
       <<5,3,6, 1,7,9, 2,4,8>>,
       <<8,1,9, 2,3,4, 5,7,6>>,
       <<1,9,3, 7,6,8, 4,5,2>>,
       <<6,8,2, 4,9,5, 3,1,7>>,
       <<4,5,7, 3,2,1, 6,8,9>>,
       <<9,4,8, 6,5,2, 7,3,1>>,
       <<3,2,5, 8,1,7, 9,6,4>>,
       <<7,6,1, 9,4,3, 8,2,5>> >>,
    << <<2,7,4, 5,8,6, 1,9,3>>,
       <<5,3,6, 1,7,9, 2,4,8>>,
       <<8,1,9, 2,3,4, 5,7,6>>,
       <<1,9,3, 7,6,8, 4,5,2>>,
       <<6,8,2, 9,4,5, 3,1,7>>,
       <<4,5,7, 3,2,1, 6,8,9>>,
       <<9,4,8, 6,5,2, 7,3,1>>,
       <<3,2,5, 8,1,7, 9,6,4>>,
       <<7,6,1, 4,9,3, 8,2,5>> >>,
    << <<2,7,4, 5,8,6, 1,9,3>>,
       <<3,6,5, 1,7,9, 2,4,8>>,
       <<8,1,9, 2,3,4, 5,7,6>>,
       <<1,9,3, 7,6,8, 4,5,2>>,
       <<6,8,2, 4,9,5, 3,1,7>>,
       <<4,5,7, 3,2,1, 6,8,9>>,
       <<9,4,8, 6,5,2, 7,3,1>>,
       <<5,3,6, 8,1,7, 9,2,4>>,
       <<7,2,1, 9,4,3, 8,6,5>> >>,
    << <<2,7,4, 5,8,6, 1,9,3>>,
       <<3,6,5, 1,7,9, 8,2,4>>,
       <<8,1,9, 2,3,4, 5,7,6>>,
       <<1,9,3, 7,6,8, 4,5,2>>,
       <<6,8,2, 4,9,5, 3,1,7>>,
       <<4,5,7, 3,2,1, 6,8,9>>,
       <<7,3,8, 6,5,2, 9,4,1>>,
       <<9,4,6, 8,1,7, 2,3,5>>,
       <<5,2,1, 9,4,3, 7,6,8>> >>,
    << <<2,7,4, 5,8,6, 1,9,3>>,
       <<3,6,5, 1,7,9, 8,2,4>>,
       <<8,1,9, 2,3,4, 5,7,6>>,
       <<1,9,3, 7,6,8, 4,5,2>>,
       <<6,8,2, 4,9,5, 3,1,7>>,
       <<4,5,7, 3,2,1, 6,8,9>>,
       <<7,4,8, 6,5,2, 9,3,1>>,
       <<9,3,6, 8,1,7, 2,4,5>>,
       <<5,2,1, 9,4,3, 7,6,8>> >>,
    << <<2,7,4, 5,8,6, 1,9,3>>,
       <<5,3,6, 1,7,9, 2,4,8>>,
       <<8,1,9, 2,3,4, 5,7,6>>,
       <<1,9,3, 7,6,8, 4,5,2>>,
       <<6,8,2, 4,9,5, 3,1,7>>,
       <<4,5,7, 3,2,1, 6,8,9>>,
       <<9,4,8, 6,5,2, 7,3,1>>,
       <<3,6,5, 8,1,7, 9,2,4>>,
       <<7,2,1, 9,4,3, 8,6,5>> >>,
    << <<2,7,4, 5,8,6, 1,9,3>>,
       <<5,3,6, 1,7,9, 8,2,4>>,
       <<8,9,1, 2,3,4, 5,7,6>>,
       <<9,1,3, 7,6,8, 4,5,2>>,
       <<6,8,2, 4,9,5, 3,1,7>>,
       <<4,5,7, 3,2,1, 6,8,9>>,
       <<7,4,8, 6,5,2, 9,3,1>>,
       <<3,6,9, 8,1,7, 2,4,5>>,
       <<1,2,5, 9,4,3, 7,6,8>> >>,
    << <<7,2,4, 5,8,6, 1,9,3>>,
       <<3,6,5, 1,7,9, 2,4,8>>,
       <<8,1,9, 2,3,4, 5,7,6>>,
       <<1,9,3, 7,6,8, 4,5,2>>,
       <<6,8,2, 4,9,5, 3,1,7>>,
       <<4,5,7, 3,2,1, 6,8,9>>,
       <<9,4,8, 6,5,2, 7,3,1>>,
       <<5,3,6, 8,1,7, 9,2,4>>,
       <<2,7,1, 9,4,3, 8,6,5>> >>,
    << <<7,2,4, 5,8,6, 1,9,3>>,
       <<3,6,5, 1,7,9, 8,2,4>>,
       <<8,1,9, 2,3,4, 5,7,6>>,
       <<1,9,3, 7,6,8, 4,5,2>>,
       <<6,8,2, 4,9,5, 3,1,7>>,
       <<4,5,7, 3,2,1, 6,8,9>>,
       <<5,7,8, 6,4,2, 9,3,1>>,
       <<9,3,6, 8,1,7, 2,4,5>>,
       <<2,4,1, 9,5,3, 7,6,8>> >>,
    << <<7,2,4, 5,8,6, 1,9,3>>,
       <<3,6,5, 1,7,9, 8,2,4>>,
       <<8,1,9, 2,3,4, 5,7,6>>,
       <<1,9,3, 7,6,8, 4,5,2>>,
       <<6,8,2, 4,9,5, 3,1,7>>,
       <<4,5,7, 3,2,1, 6,8,9>>,
       <<9,3,8, 6,5,2, 7,4,1>>,
       <<2,4,6, 8,1,7, 9,3,5>>,
       <<5,7,1, 9,4,3, 2,6,8>> >>,
    << <<7,2,4, 5,8,6, 1,9,3>>,
       <<3,6,5, 1,7,9, 8,2,4>>,
       <<8,1,9, 2,3,4, 5,7,6>>,
       <<1,9,3, 7,6,8, 4,5,2>>,
       <<6,8,2, 4,9,5, 3,1,7>>,
       <<4,5,7, 3,2,1, 6,8,9>>,
       <<9,4,8, 6,5,2, 7,3,1>>,
       <<2,3,6, 8,1,7, 9,4,5>>,
       <<5,7,1, 9,4,3, 2,6,8>> >>,
    << <<7,2,4, 5,8,6, 1,9,3>>,
       <<5,3,6, 1,7,9, 2,4,8>>,
       <<8,1,9, 2,3,4, 5,7,6>>,
       <<1,9,3, 7,6,8, 4,5,2>>,
       <<6,8,2, 4,9,5, 3,1,7>>,
       <<4,5,7, 3,2,1, 6,8,9>>,
       <<9,4,8, 6,5,2, 7,3,1>>,
       <<3,6,5, 8,1,7, 9,2,4>>,
       <<2,7,1, 9,4,3, 8,6,5>> >> >>

\* each row, column and box of G holds 1..9 once
ValidGrid(G) ==
    \A i \in DOMAIN Groups : {G[Groups[i][k]] : k \in DOMAIN Groups[i]} = Values

\* G agrees with the clues cl
Agrees(G, cl) == \A p \in Pos : cl[p] \in Values => G[p] = cl[p]

\* the valid completions of the clues cl among the grids above
Completions(cl) ==
    {G \in {[p \in Pos |-> CompleteGrids[n][p[1] + 1][p[2] + 1]] : n \in DOMAIN CompleteGrids} :
        Agrees(G, cl) /\ ValidGrid(G)}

\* the grid b rules nothing of G out
Allows(b, G) ==
    \A p \in Pos :
        IF b[p].value # 0 THEN b[p].value = G[p] ELSE G[p] \in b[p].moves

C22_DeductionIsSound ==
    plays = 0 =>
        \A G \in Completions(clues) :
            Allows(board, G) /\ Kind(err) # "Contradiction"

\* Solve has returned on a puzzle with several completions, where deduction
\* has set a cell no clue gave and has taken candidates from a cell it left
\* unset
C22_Witness ==
    /\ pc = "idle" /\ plays = 0 /\ solves > 0
    /\ Cardinality(Completions(clues)) > 1
    /\ \E p \in Pos : clues[p] = 0 /\ board[p].value # 0
    /\ \E p \in Pos :
          /\ board[p].value = 0
          /\ \E v \in Values \ board[p].moves :
                \A q \in PeersOf[p] : board[q].value # v

====
